---- MODULE Spec2Model ----
(***************************************************************************)
(* ws-rpc: the RpcPeer state machine of src/src/peers/default.ts.         *)
(*                                                                         *)
(* Two peers, "A" and "B", are joined by a message-framed transport: the  *)
(* frames a peer hands to its socket are queued in net[p] and delivered   *)
(* in order to the other peer's handleMessage.  Every promise a driver    *)
(* call creates is kept in calls[p] together with its timer and with the  *)
(* list of calls made of its resolve/reject functions.                     *)
(*                                                                         *)
(* Transport: a send on a socket whose readyState is OPEN queues the      *)
(* frame and returns; a send on a socket in another state queues nothing. *)
(***************************************************************************)
EXTENDS Naturals, Integers, Sequences, FiniteSets, TLC

\* ---------------------------------------------------------------- bounds
MaxCalls == 2      \* driver calls registered per peer
MaxTasks == 2      \* inbound Requests dispatched per peer
MaxPairCalls == 1  \* driver calls when two peers are joined
MaxDurable == 2    \* calls of callWithCallback
MaxNow == 1        \* the last reading of Date.now()
MaxMulti == 1      \* calls of the Multi-Peer driver
MaxOwnFrames == 1  \* Request and Event frames of a peer that also serves
MaxCreated == 2    \* peers made for one connection
MaxHeld == 3       \* PendingCall objects the caller of a storage holds
MaxSockets == 4    \* WebSockets an RpcClient makes

\* ------------------------------------------------------ program constants
CONNECTING == 0
OPEN       == 1
CLOSING    == 2
CLOSED     == 3

METHOD_NOT_FOUND  == -32601
INVALID_PARAMS    == -32602
INTERNAL_ERROR    == -32603
TIMEOUT           == -32000
CONNECTION_CLOSED == -32001
VALIDATION_ERROR  == -32002

\* undefined, for the values that are strings (params, result, data)
Undefined == "undefined"

\* an optional number: None is undefined, Some(n) is n
None == <<>>

Some(n) == <<n>>

\* x ?? d
Nullish(x, d) == IF x = None THEN d ELSE x[1]

\* ------------------------------------------------------------ the fixture
Peers == {"A", "B", "C", "D"}

Other(p) == IF p = "A" THEN "B" ELSE "A"

\* options.timeout of each peer, in units of the model's time; B is built
\* without the option; A and C are what a Multi-Peer with options.timeout 2
\* creates
OptionsTimeout(p) == IF p \in {"A", "C"} THEN Some(2) ELSE None

DefaultTimeoutMs == 30000

\* this.defaultTimeout = options.timeout ?? 30000
defaultTimeout(p) == Nullish(OptionsTimeout(p), DefaultTimeoutMs)

\* remoteSchema.methods / localSchema.methods / provider of each peer
\* D is a peer that calls, provides and emits
RemoteMethods(p) ==
    IF p \in {"A", "C"} THEN {"getUser", "noSuch"}
    ELSE IF p = "D" THEN {"getUser"} ELSE {}

LocalMethods(p) ==
    IF p = "B" THEN {"getUser", "unimpl"}
    ELSE IF p = "D" THEN {"getUser"} ELSE {}

ProviderMethods(p) == IF p \in {"B", "D"} THEN {"getUser"} ELSE {}

\* localSchema.events of each peer
LocalEvents(p) == IF p = "B" THEN {} ELSE {"localEvent"}

\* values handed to the validators: "raw" is accepted and normalised to
\* "ok", "ok" is accepted unchanged, "bad" is rejected
Values == {"raw", "ok", "bad"}

safeParse(v) ==
    IF v = "bad" THEN [success |-> FALSE, error |-> "issues"]
    ELSE [success |-> TRUE, data |-> "ok"]

\* `${++this.requestCounter}`: the decimal digits of the counter
Digits == <<"0", "1", "2", "3", "4", "5", "6", "7", "8", "9">>

RECURSIVE IdString(_)
IdString(n) ==
    IF n < 10 THEN <<Digits[n + 1]>>
    ELSE IdString(n \div 10) \o <<Digits[(n % 10) + 1]>>

\* ------------------------------------------------------------- the codec
\* JSON.stringify leaves out every key whose value is undefined
Optional == {"params", "result", "data"}

Encode(msg) ==
    [json |-> [k \in {f \in DOMAIN msg :
                         ~(f \in Optional /\ msg[f] = Undefined)} |-> msg[k]]]

createRequest(id, method, params) ==
    Encode([type |-> "rpc:request", id |-> id, method |-> method,
            params |-> params])

createEvent(event, data) ==
    Encode([type |-> "rpc:event", event |-> event, data |-> data])

createResponse(id, result) ==
    Encode([type |-> "rpc:response", id |-> id, result |-> result])

createError(id, code, message, data) ==
    Encode([type |-> "rpc:error", id |-> id, code |-> code,
            message |-> message, data |-> data])

\* a frame that is not the encoding of any message
Garbage == [text |-> "not json"]

\* a frame that decodes to a value that is none of the four messages
InvalidSchema == [json |-> [invalid |-> "true"]]

\* the union validator of the four message variants
RpcMessageSchema(obj) ==
    /\ "type" \in DOMAIN obj
    /\ \/ obj.type = "rpc:request" /\ {"id", "method"} \subseteq DOMAIN obj
       \/ obj.type = "rpc:response" /\ "id" \in DOMAIN obj
       \/ obj.type = "rpc:error" /\ {"id", "code", "message"} \subseteq DOMAIN obj
       \/ obj.type = "rpc:event" /\ "event" \in DOMAIN obj

Null == [null |-> TRUE]

\* decode, or null when the frame does not parse or fails the validator
safeDecodeMessage(wire) ==
    IF "json" \in DOMAIN wire /\ RpcMessageSchema(wire.json) THEN wire.json
    ELSE Null

\* reading a property of a decoded message: an absent key reads undefined
Get(msg, k) == IF k \in DOMAIN msg THEN msg[k] ELSE Undefined

\* ---------------------------------------------------------------- errors
RpcConnectionClosed == [name |-> "RpcConnectionClosed", code |-> CONNECTION_CLOSED]

RpcMethodNotFoundError(method) ==
    [name |-> "RpcMethodNotFoundError", code |-> METHOD_NOT_FOUND,
     method |-> method]

RpcValidationError(method, issues) ==
    [name |-> "RpcValidationError", code |-> VALIDATION_ERROR,
     method |-> method, data |-> issues]

RpcTimeoutError(method, timeoutMs) ==
    [name |-> "RpcTimeoutError", code |-> TIMEOUT, method |-> method,
     timeoutMs |-> timeoutMs]

RpcRemoteError(method, code, message, data) ==
    [name |-> "RpcRemoteError", method |-> method, code |-> code,
     message |-> message, data |-> data]

\* ----------------------------------------------------------------- state
VARIABLES
    closed,           \* closed[p]: the peer's closed flag
    readyState,       \* readyState[p]: ws.readyState of the peer's socket
    requestCounter,   \* requestCounter[p]
    pendingRequests,  \* pendingRequests[p]: id -> PendingRequest
    calls,            \* calls[p]: the promises and timers callMethod created
    tasks,            \* tasks[p]: the handleRequest invocations
    sent,             \* sent[p]: the frames handed to p's socket, in order
    recv,             \* recv[p]: how many frames of the other peer p has received
    last,             \* the operation that produced this state
    storage,          \* the rows of the pending call storage, as inserted
    durableRequestCounter,  \* durableRequestCounter[p]
    now,              \* Date.now()
    multi,            \* the calls of the Multi-Peer driver and their races
    peerMap,          \* the connections that have a peer in the Multi-Peer's map
    hooks,            \* hooks[h]: how often each hook has fired for connection h
    client,           \* the fields of the RpcClient
    heap,             \* the objects of a MemoryPendingCallStorage and its user
    actor,            \* the names of the methods of the DurableRpcPeer's actor
    sql               \* the table of a SqlPendingCallStorage

\* the state only a DurableRpcPeer reads or writes
durableVars == <<storage, durableRequestCounter, now>>

\* the state of the hosts of a peer: the Multi-Peer's map and hooks, the
\* RpcClient, and the storage's objects
hostVars == <<peerMap, hooks, client, heap, actor, sql>>

\* the fields of the Multi-Peer that hands a connection's frames to its peer
actorVars == <<peerMap, hooks>>

vars == <<closed, readyState, requestCounter, pendingRequests, calls, tasks,
          sent, recv, last, storage, durableRequestCounter, now, multi,
          peerMap, hooks, client, heap, actor, sql>>

\* no hook has fired
NoHooks == [onConnect |-> 0, onPeerRecreated |-> 0, onDisconnect |-> 0]

\* the RpcClient after its constructor
ClientInit ==
    [state |-> "disconnected", ws |-> 0, peer |-> 0, reconnectAttempt |-> 0,
     reconnectTimeout |-> 0, intentionalClose |-> FALSE, sockets |-> <<>>,
     timers |-> {}, timerSeq |-> 0,
     hooks |-> [onConnect |-> 0, onDisconnect |-> 0, onReconnect |-> 0,
                onReconnectFailed |-> 0],
     afterDisconnect |-> FALSE, attempts |-> 0]

\* a SqlPendingCallStorage that has not touched its database
SqlInit == [initialized |-> FALSE, table |-> <<>>]

\* the methods of the actor of the fixture
ActorMethods == {"onRemoteMethodComplete", "onRemoteMethodError"}

\* an empty storage, and no object in its user's hands
HeapInit == [made |-> FALSE, paramsCodec |-> FALSE, mem |-> <<>>,
             calls |-> <<>>, held |-> <<>>]

\* ------------------------------------------------------------ map helpers
MapSet(m, k, v) == [x \in DOMAIN m \cup {k} |-> IF x = k THEN v ELSE m[x]]

MapDelete(m, k) == [x \in DOMAIN m \ {k} |-> m[x]]

EmptyMap == [x \in {} |-> x]

\* a call of resolve or reject of the promise of call cn
Settle(cs, cn, ev) == [cs EXCEPT ![cn].events = Append(@, ev)]

resolve(v) == [name |-> "resolve", value |-> v]

\* clearTimeout of the timer of call cn: a timer that has fired stays fired
clearTimeout(cs, cn) ==
    [cs EXCEPT ![cn].timer = IF @ = "armed" THEN "cleared" ELSE @]

\* ws.send on p's socket: the frames the transport takes
wsSend(p, frame) == IF readyState[p] = OPEN THEN <<frame>> ELSE <<>>

NoError == [name |-> "none"]

Init ==
    /\ closed = [p \in Peers |-> FALSE]
    /\ readyState = [p \in Peers |-> OPEN]
    /\ requestCounter = [p \in Peers |-> 0]
    /\ pendingRequests = [p \in Peers |-> EmptyMap]
    /\ calls = [p \in Peers |-> <<>>]
    /\ tasks = [p \in Peers |-> <<>>]
    /\ sent = [p \in Peers |-> <<>>]
    /\ recv = [p \in Peers |-> 0]
    /\ last = [op |-> "init"]
    /\ storage = <<>>
    /\ durableRequestCounter = [p \in Peers |-> 0]
    /\ now = 0
    /\ multi = <<>>
    /\ peerMap = {}
    /\ hooks = [h \in Peers |-> NoHooks]
    /\ client = ClientInit
    /\ heap = HeapInit
    /\ actor = ActorMethods
    /\ sql = SqlInit

\* ------------------------------------------------------------ callMethod
\* the async function throws: the caller's promise rejects, nothing else
callThrows(p, method, input, error) ==
    /\ last' = [op |-> "callMethod", p |-> p, method |-> method,
                input |-> input, thrown |-> error]
    /\ UNCHANGED <<durableVars, multi, hostVars>>
    /\ UNCHANGED <<closed, readyState, requestCounter, pendingRequests, calls,
                   tasks, sent, recv>>

\* mutant: the closed flag is not looked at
connectionClosed_IgnoresClosed(p) == readyState[p] # OPEN

\* mutant: the socket's state is not looked at
connectionClosed_IgnoresReadyState(p) == closed[p]

\* `this.closed || this.ws.readyState !== 1`
connectionClosed(p) == closed[p] \/ readyState[p] # OPEN

\* mutant: the id is made from the number of entries in the map
generateId_FromSize(p) == IdString(Cardinality(DOMAIN pendingRequests[p]) + 1)

\* the default generator, `${++this.requestCounter}`
generateId(p) == IdString(requestCounter[p] + 1)

\* mutant: the Request is handed to the socket and the entry is not yet in
\* the map when the step ends
callMethod_SendsUnregistered(p, method, input, timeout) ==
    LET parseResult == safeParse(input)
        id == generateId(p)
        timeoutMs == Nullish(timeout, defaultTimeout(p))
        call == [id |-> id, method |-> method, timeoutMs |-> timeoutMs,
                 timer |-> "armed", left |-> timeoutMs, events |-> <<>>]
    IN
    IF connectionClosed(p)
    THEN callThrows(p, method, input, RpcConnectionClosed)
    ELSE IF method \notin RemoteMethods(p)
    THEN callThrows(p, method, input, RpcMethodNotFoundError(method))
    ELSE IF ~parseResult.success
    THEN callThrows(p, method, input,
                    RpcValidationError(method, parseResult.error))
    ELSE
        /\ requestCounter[p] < MaxCalls
        /\ requestCounter' = [requestCounter EXCEPT ![p] = @ + 1]
        /\ calls' = [calls EXCEPT ![p] = Append(@, call)]
        /\ sent' = [sent EXCEPT ![p] =
                      @ \o wsSend(p, createRequest(id, method, parseResult.data))]
        /\ last' = [op |-> "callMethod", p |-> p, method |-> method,
                    input |-> input, thrown |-> NoError, timeout |-> timeout]
        /\ UNCHANGED <<durableVars, multi, hostVars>>
        /\ UNCHANGED <<closed, readyState, tasks, recv, pendingRequests>>

callMethod(p, method, input, timeout) ==
    LET parseResult == safeParse(input)
        id == generateId(p)
        timeoutMs == Nullish(timeout, defaultTimeout(p))
        cn == Len(calls[p]) + 1
        call == [id |-> id, method |-> method, timeoutMs |-> timeoutMs,
                 timer |-> "armed", left |-> timeoutMs, events |-> <<>>]
    IN
    IF connectionClosed(p)
    THEN callThrows(p, method, input, RpcConnectionClosed)
    ELSE IF method \notin RemoteMethods(p)
    THEN callThrows(p, method, input, RpcMethodNotFoundError(method))
    ELSE IF ~parseResult.success
    THEN callThrows(p, method, input,
                    RpcValidationError(method, parseResult.error))
    ELSE
        /\ requestCounter[p] < MaxCalls
        /\ requestCounter' = [requestCounter EXCEPT ![p] = @ + 1]
        /\ calls' = [calls EXCEPT ![p] = Append(@, call)]
        /\ pendingRequests' = [pendingRequests EXCEPT ![p] =
                                 MapSet(@, id, [call |-> cn, method |-> method])]
        /\ sent' = [sent EXCEPT ![p] =
                      @ \o wsSend(p, createRequest(id, method, parseResult.data))]
        /\ last' = [op |-> "callMethod", p |-> p, method |-> method,
                    input |-> input, thrown |-> NoError, timeout |-> timeout]
        /\ UNCHANGED <<durableVars, multi, hostVars>>
        /\ UNCHANGED <<closed, readyState, tasks, recv>>

\* what the socket's send (or the encoding of its argument) throws
SendError == [name |-> "SendError"]

\* callMethod when the last statement of the Promise executor throws:
\* setTimeout and pendingRequests.set have run, nothing is handed to the
\* socket, and the throw of the executor rejects the promise
callMethodSendThrows(p, method, input, timeout) ==
    LET parseResult == safeParse(input)
        id == generateId(p)
        timeoutMs == Nullish(timeout, defaultTimeout(p))
        cn == Len(calls[p]) + 1
        call == [id |-> id, method |-> method, timeoutMs |-> timeoutMs,
                 timer |-> "armed", left |-> timeoutMs,
                 events |-> <<SendError>>]
    IN
    IF connectionClosed(p)
    THEN callThrows(p, method, input, RpcConnectionClosed)
    ELSE IF method \notin RemoteMethods(p)
    THEN callThrows(p, method, input, RpcMethodNotFoundError(method))
    ELSE IF ~parseResult.success
    THEN callThrows(p, method, input,
                    RpcValidationError(method, parseResult.error))
    ELSE
        /\ requestCounter[p] < MaxCalls
        /\ requestCounter' = [requestCounter EXCEPT ![p] = @ + 1]
        /\ calls' = [calls EXCEPT ![p] = Append(@, call)]
        /\ pendingRequests' = [pendingRequests EXCEPT ![p] =
                                 MapSet(@, id, [call |-> cn, method |-> method])]
        /\ last' = [op |-> "callMethod", p |-> p, method |-> method,
                    input |-> input, thrown |-> SendError, timeout |-> timeout]
        /\ UNCHANGED <<durableVars, multi, hostVars>>
        /\ UNCHANGED <<closed, readyState, tasks, recv, sent>>

\* mutant: the callback removes the entry and forgets to reject
timerCallback_NoReject(p, cn) ==
    /\ pendingRequests' = [pendingRequests EXCEPT ![p] =
                             MapDelete(@, calls[p][cn].id)]
    /\ calls' = [calls EXCEPT ![p][cn].timer = "fired"]
    /\ last' = [op |-> "timeout", p |-> p, call |-> cn]
    /\ UNCHANGED <<durableVars, multi, hostVars>>
    /\ UNCHANGED <<closed, readyState, requestCounter, tasks, sent, recv>>

\* mutant: the callback rejects and leaves the entry in the map
timerCallback_NoDelete(p, cn) ==
    /\ calls' = [calls EXCEPT ![p] =
                   Settle([@ EXCEPT ![cn].timer = "fired"], cn,
                          RpcTimeoutError(calls[p][cn].method,
                                          calls[p][cn].timeoutMs))]
    /\ last' = [op |-> "timeout", p |-> p, call |-> cn]
    /\ UNCHANGED <<durableVars, multi, hostVars>>
    /\ UNCHANGED <<closed, readyState, requestCounter, pendingRequests, tasks,
                   sent, recv>>

\* the callback of the timer of call cn
timerCallback(p, cn) ==
    LET call == calls[p][cn] IN
    /\ pendingRequests' = [pendingRequests EXCEPT ![p] = MapDelete(@, call.id)]
    /\ calls' = [calls EXCEPT ![p] =
                   Settle([@ EXCEPT ![cn].timer = "fired"], cn,
                          RpcTimeoutError(call.method, call.timeoutMs))]
    /\ last' = [op |-> "timeout", p |-> p, call |-> cn]
    /\ UNCHANGED <<durableVars, multi, hostVars>>
    /\ UNCHANGED <<closed, readyState, requestCounter, tasks, sent, recv>>

TimerFire(p, cn) ==
    /\ cn \in 1..Len(calls[p])
    /\ calls[p][cn].timer = "armed"
    /\ calls[p][cn].left = 0
    /\ timerCallback(p, cn)

\* the timers of the Multi-Peer races, one unit of time later
elapse(ms) ==
    [m \in 1..Len(ms) |->
       [ms[m] EXCEPT !.entries =
          [k \in 1..Len(ms[m].entries) |->
             [ms[m].entries[k] EXCEPT !.left = IF @ > 0 THEN @ - 1 ELSE 0]]]]

\* a unit of time passes: every call is one unit nearer to its deadline
\* (left is the time to the deadline set by setTimeout); time is visible to
\* the peer through its timers only
Tick ==
    /\ \/ \E p \in Peers : \E cn \in 1..Len(calls[p]) : calls[p][cn].left > 0
       \/ \E m \in 1..Len(multi) : \E k \in 1..Len(multi[m].entries) :
             multi[m].entries[k].left > 0
    /\ calls' = [p \in Peers |->
                   [cn \in 1..Len(calls[p]) |->
                      [calls[p][cn] EXCEPT !.left = IF @ > 0 THEN @ - 1 ELSE 0]]]
    /\ multi' = elapse(multi)
    /\ last' = [op |-> "tick"]
    /\ UNCHANGED <<durableVars, hostVars>>
    /\ UNCHANGED <<closed, readyState, requestCounter, pendingRequests, tasks,
                   sent, recv>>

\* ----------------------------------------------------------------- emit
\* emit returns without sending
emitDrops(p, event, data) ==
    /\ last' = [op |-> "emit", p |-> p, event |-> event, data |-> data]
    /\ UNCHANGED <<durableVars, multi, hostVars>>
    /\ UNCHANGED <<closed, readyState, requestCounter, pendingRequests, calls,
                   tasks, sent, recv>>

\* emit hands the frame to the socket
emitSends(p, event, data) ==
    /\ sent' = [sent EXCEPT ![p] = @ \o wsSend(p, createEvent(event, data))]
    /\ last' = [op |-> "emit", p |-> p, event |-> event, data |-> data]
    /\ UNCHANGED <<durableVars, multi, hostVars>>
    /\ UNCHANGED <<closed, readyState, requestCounter, pendingRequests, calls,
                   tasks, recv>>

\* mutant: the data is sent as it was given, valid or not
emit_NoValidation(p, event, data) ==
    IF connectionClosed(p) THEN emitDrops(p, event, data)
    ELSE IF event \notin LocalEvents(p) THEN emitDrops(p, event, data)
    ELSE emitSends(p, event, data)

emit(p, event, data) ==
    LET parseResult == safeParse(data) IN
    IF connectionClosed(p) THEN emitDrops(p, event, data)
    ELSE IF event \notin LocalEvents(p) THEN emitDrops(p, event, data)
    ELSE IF ~parseResult.success THEN emitDrops(p, event, data)
    ELSE emitSends(p, event, parseResult.data)

\* ---------------------------------------------------------------- close
\* mutant: the timers of the rejected calls are left running
RECURSIVE rejectAll_NoClearTimeout(_, _, _)
rejectAll_NoClearTimeout(cs, pend, ids) ==
    IF ids = {} THEN cs
    ELSE LET id == CHOOSE x \in ids : TRUE
         IN rejectAll_NoClearTimeout(
                Settle(cs, pend[id].call, RpcConnectionClosed), pend, ids \ {id})

\* the loop of close over the pending map
RECURSIVE rejectAll(_, _, _)
rejectAll(cs, pend, ids) ==
    IF ids = {} THEN cs
    ELSE LET id == CHOOSE x \in ids : TRUE
             cn == pend[id].call
         IN rejectAll(Settle(clearTimeout(cs, cn), cn, RpcConnectionClosed),
                      pend, ids \ {id})

\* mutant: close() also clears the storage of the durable calls
close_ClearsStorage(p) ==
    /\ closed' = [closed EXCEPT ![p] = TRUE]
    /\ calls' = [calls EXCEPT ![p] =
                   rejectAll(@, pendingRequests[p], DOMAIN pendingRequests[p])]
    /\ pendingRequests' = [pendingRequests EXCEPT ![p] = EmptyMap]
    /\ storage' = <<>>
    /\ last' = [op |-> "close", p |-> p,
                pending |-> Cardinality(DOMAIN pendingRequests[p])]
    /\ UNCHANGED <<readyState, requestCounter, tasks, sent, recv,
                   durableRequestCounter, now, multi, hostVars>>

close(p) ==
    /\ closed' = [closed EXCEPT ![p] = TRUE]
    /\ calls' = [calls EXCEPT ![p] =
                   rejectAll(@, pendingRequests[p], DOMAIN pendingRequests[p])]
    /\ pendingRequests' = [pendingRequests EXCEPT ![p] = EmptyMap]
    /\ last' = [op |-> "close", p |-> p,
                pending |-> Cardinality(DOMAIN pendingRequests[p])]
    /\ UNCHANGED <<durableVars, multi, hostVars>>
    /\ UNCHANGED <<readyState, requestCounter, tasks, sent, recv>>

\* the socket of p leaves the OPEN state
TransportClose(p) ==
    /\ readyState[p] = OPEN
    /\ \E s \in {CLOSING, CLOSED} : readyState' = [readyState EXCEPT ![p] = s]
    /\ last' = [op |-> "wsClose", p |-> p]
    /\ UNCHANGED <<durableVars, multi, hostVars>>
    /\ UNCHANGED <<closed, requestCounter, pendingRequests, calls, tasks, sent,
                   recv>>

\* --------------------------------------------------- inbound: the replies
\* mutant: the timer of the resolved call is left running
handleResponse_NoClearTimeout(p, response) ==
    IF response.id \notin DOMAIN pendingRequests[p]
    THEN UNCHANGED <<pendingRequests, calls, tasks, sent>>
    ELSE LET pending == pendingRequests[p][response.id] IN
         /\ calls' = [calls EXCEPT ![p] =
                        Settle(@, pending.call, resolve(Get(response, "result")))]
         /\ pendingRequests' = [pendingRequests EXCEPT ![p] =
                                  MapDelete(@, response.id)]
         /\ UNCHANGED <<tasks, sent>>

\* mutant: the reply is given to the oldest pending call, not to the call
\* registered under the reply's id
handleResponse_OldestPending(p, response) ==
    IF response.id \notin DOMAIN pendingRequests[p]
    THEN UNCHANGED <<pendingRequests, calls, tasks, sent>>
    ELSE LET cn == CHOOSE c \in 1..Len(calls[p]) :
                      /\ calls[p][c].id \in DOMAIN pendingRequests[p]
                      /\ \A d \in 1..(c - 1) :
                            calls[p][d].id \notin DOMAIN pendingRequests[p]
         IN
         /\ calls' = [calls EXCEPT ![p] =
                        Settle(clearTimeout(@, cn), cn,
                               resolve(Get(response, "result")))]
         /\ pendingRequests' = [pendingRequests EXCEPT ![p] =
                                  MapDelete(@, calls[p][cn].id)]
         /\ UNCHANGED <<tasks, sent>>

handleResponse(p, response) ==
    IF response.id \notin DOMAIN pendingRequests[p]
    THEN UNCHANGED <<pendingRequests, calls, tasks, sent>>
    ELSE LET pending == pendingRequests[p][response.id] IN
         /\ calls' = [calls EXCEPT ![p] =
                        Settle(clearTimeout(@, pending.call), pending.call,
                               resolve(Get(response, "result")))]
         /\ pendingRequests' = [pendingRequests EXCEPT ![p] =
                                  MapDelete(@, response.id)]
         /\ UNCHANGED <<tasks, sent>>

\* mutant: the constructor's arguments are given in the frame's order
remoteError_FrameOrder(pending, error) ==
    RpcRemoteError(error.id, error.code, error.message, Get(error, "data"))

\* new RpcRemoteError(pending.method, error.code, error.message, error.data)
remoteError(pending, error) ==
    RpcRemoteError(pending.method, error.code, error.message, Get(error, "data"))

\* mutant: an error for an unknown id is answered with an error frame
handleError_AnswersUnknown(p, error) ==
    IF error.id \notin DOMAIN pendingRequests[p]
    THEN /\ sent' = [sent EXCEPT ![p] =
                       @ \o wsSend(p, createError(error.id, METHOD_NOT_FOUND,
                                                  <<"Unknown request">>,
                                                  Undefined))]
         /\ UNCHANGED <<pendingRequests, calls, tasks>>
    ELSE LET pending == pendingRequests[p][error.id] IN
         /\ calls' = [calls EXCEPT ![p] =
                        Settle(clearTimeout(@, pending.call), pending.call,
                               remoteError(pending, error))]
         /\ pendingRequests' = [pendingRequests EXCEPT ![p] =
                                  MapDelete(@, error.id)]
         /\ UNCHANGED <<tasks, sent>>

handleError(p, error) ==
    IF error.id \notin DOMAIN pendingRequests[p]
    THEN UNCHANGED <<pendingRequests, calls, tasks, sent>>
    ELSE LET pending == pendingRequests[p][error.id] IN
         /\ calls' = [calls EXCEPT ![p] =
                        Settle(clearTimeout(@, pending.call), pending.call,
                               remoteError(pending, error))]
         /\ pendingRequests' = [pendingRequests EXCEPT ![p] =
                                  MapDelete(@, error.id)]
         /\ UNCHANGED <<tasks, sent>>

\* no onEvent handler is configured on the peers of the fixture
handleEvent(p, event) == UNCHANGED <<pendingRequests, calls, tasks, sent>>

\* -------------------------------------------------- inbound: the requests
\* sendError: the frames handed to the transport
sendError(p, id, code, message, data) ==
    IF readyState[p] # OPEN THEN <<>>
    ELSE wsSend(p, createError(id, code, message, data))

\* task tn of p hands the frames out to the transport and goes to pc
\* mutant: the reply is put in front of the frames not yet taken
TaskStep_RepliesFirst(p, tn, pc, out, data, result) ==
    /\ tasks' = [tasks EXCEPT ![p][tn] =
                   [@ EXCEPT !.pc = pc, !.replies = @ \o out,
                             !.data = data, !.result = result]]
    /\ sent' = [sent EXCEPT ![p] = out \o @]

TaskStep(p, tn, pc, out, data, result) ==
    /\ tasks' = [tasks EXCEPT ![p][tn] =
                   [@ EXCEPT !.pc = pc, !.replies = @ \o out,
                             !.data = data, !.result = result]]
    /\ sent' = [sent EXCEPT ![p] = @ \o out]

\* handleRequest up to its first await
handleRequest(p, request) ==
    LET id == request.id
        method == request.method
        task == [id |-> id, method |-> method,
                 params |-> Get(request, "params"), pc |-> "parseInput",
                 data |-> Undefined, result |-> Undefined, replies |-> <<>>]
        notFound == sendError(p, id, METHOD_NOT_FOUND,
                              <<"Method '", method, "' not found">>, Undefined)
    IN
    /\ Len(tasks[p]) < MaxTasks
    /\ IF method \notin LocalMethods(p)
       THEN /\ tasks' = [tasks EXCEPT ![p] =
                           Append(@, [task EXCEPT !.pc = "done",
                                                  !.replies = notFound])]
            /\ sent' = [sent EXCEPT ![p] = @ \o notFound]
       ELSE /\ tasks' = [tasks EXCEPT ![p] = Append(@, task)]
            /\ UNCHANGED sent
    /\ UNCHANGED <<pendingRequests, calls>>

\* handleRequest after `await methodDef.input.safeParseAsync(params)`
afterParseInput(p, tn) ==
    LET t == tasks[p][tn]
        parseResult == safeParse(t.params)
    IN
    IF ~parseResult.success
    THEN TaskStep(p, tn, "done",
                  sendError(p, t.id, INVALID_PARAMS,
                            <<"Invalid params for '", t.method, "'">>,
                            parseResult.error),
                  t.data, t.result)
    ELSE IF t.method \notin ProviderMethods(p)
    THEN TaskStep(p, tn, "done",
                  sendError(p, t.id, METHOD_NOT_FOUND,
                            <<"Method '", t.method, "' not implemented">>,
                            Undefined),
                  t.data, t.result)
    ELSE TaskStep(p, tn, "handler", <<>>, parseResult.data, t.result)

\* the step was not the return of a provider handler
NoOutcome == [kind |-> "none"]

\* what a provider handler can do
HandlerOutcomes ==
    {[kind |-> "return", value |-> "raw"],
     [kind |-> "return", value |-> "bad"],
     [kind |-> "throwError", message |-> <<"Handler error">>],
     [kind |-> "throwOther"]}

\* mutant: only an Error is caught; any other thrown value escapes the
\* dispatch and no frame is sent
afterHandler_CatchesErrorOnly(p, tn, outcome) ==
    LET t == tasks[p][tn] IN
    IF outcome.kind = "return"
    THEN TaskStep(p, tn, "parseOutput", <<>>, t.data, outcome.value)
    ELSE TaskStep(p, tn, "done",
                  IF outcome.kind = "throwError"
                  THEN sendError(p, t.id, INTERNAL_ERROR, outcome.message,
                                 Undefined)
                  ELSE <<>>,
                  t.data, t.result)

\* handleRequest after `await handler.call(this.provider, parseResult.data)`
afterHandler(p, tn, outcome) ==
    LET t == tasks[p][tn] IN
    IF outcome.kind = "return"
    THEN TaskStep(p, tn, "parseOutput", <<>>, t.data, outcome.value)
    ELSE TaskStep(p, tn, "done",
                  sendError(p, t.id, INTERNAL_ERROR,
                            IF outcome.kind = "throwError" THEN outcome.message
                            ELSE <<"Unknown error">>,
                            Undefined),
                  t.data, t.result)

\* mutant: the branch of an invalid output does not return
afterParseOutput_NoReturn(p, tn) ==
    LET t == tasks[p][tn]
        outputResult == safeParse(t.result)
    IN
    TaskStep(p, tn, "done",
             (IF outputResult.success THEN <<>>
              ELSE sendError(p, t.id, INTERNAL_ERROR,
                             <<"Invalid output from '", t.method, "'">>,
                             outputResult.error))
             \o wsSend(p, createResponse(t.id,
                          IF outputResult.success THEN outputResult.data
                          ELSE t.result)),
             t.data, t.result)

\* handleRequest after `await methodDef.output.safeParseAsync(result)`; a
\* send that the transport refuses is caught and goes to sendError, which
\* returns at once because the socket is not OPEN
afterParseOutput(p, tn) ==
    LET t == tasks[p][tn]
        outputResult == safeParse(t.result)
    IN
    IF ~outputResult.success
    THEN TaskStep(p, tn, "done",
                  sendError(p, t.id, INTERNAL_ERROR,
                            <<"Invalid output from '", t.method, "'">>,
                            outputResult.error),
                  t.data, t.result)
    ELSE TaskStep(p, tn, "done",
                  wsSend(p, createResponse(t.id, outputResult.data)),
                  t.data, t.result)

\* a suspended handleRequest resumes
Resume(p, tn) ==
    /\ tn \in 1..Len(tasks[p])
    /\ \/ /\ tasks[p][tn].pc = "parseInput"
          /\ afterParseInput(p, tn)
          /\ last' = [op |-> "resume", p |-> p, task |-> tn,
                      outcome |-> NoOutcome]
       \/ /\ tasks[p][tn].pc = "handler"
          /\ \E outcome \in HandlerOutcomes :
                /\ afterHandler(p, tn, outcome)
                /\ last' = [op |-> "resume", p |-> p, task |-> tn,
                            outcome |-> outcome]
       \/ /\ tasks[p][tn].pc = "parseOutput"
          /\ afterParseOutput(p, tn)
          /\ last' = [op |-> "resume", p |-> p, task |-> tn,
                      outcome |-> NoOutcome]
    /\ UNCHANGED <<durableVars, multi, hostVars>>
    /\ UNCHANGED <<closed, readyState, requestCounter, pendingRequests, calls,
                   recv>>

\* --------------------------------------------------------- handleMessage
\* handleMessage is called by the owner of the peer, which may have made the
\* peer in the same call: what becomes of the owner's map and hooks is said
\* where handleMessage is called
\* mutant: a frame that does not decode is answered with an error frame
handleMessage_AnswersUndecodable(p, data) ==
    LET message == safeDecodeMessage(data) IN
    /\ IF message = Null
       THEN /\ sent' = [sent EXCEPT ![p] =
                          @ \o wsSend(p, createError(<<"0">>, INTERNAL_ERROR,
                                                     <<"Parse error">>,
                                                     Undefined))]
            /\ UNCHANGED <<pendingRequests, calls, tasks>>
       ELSE CASE message.type = "rpc:request" -> handleRequest(p, message)
              [] message.type = "rpc:response" -> handleResponse(p, message)
              [] message.type = "rpc:error" -> handleError(p, message)
              [] message.type = "rpc:event" -> handleEvent(p, message)
    /\ last' = [op |-> "handleMessage", p |-> p, data |-> data,
                known |-> /\ message # Null
                          /\ "id" \in DOMAIN message
                          /\ message.id \in DOMAIN pendingRequests[p]]
    /\ UNCHANGED <<durableVars, multi, client, heap, actor, sql>>
    /\ UNCHANGED <<closed, readyState, requestCounter>>

handleMessage(p, data) ==
    LET message == safeDecodeMessage(data) IN
    /\ IF message = Null
       THEN UNCHANGED <<pendingRequests, calls, tasks, sent>>
       ELSE CASE message.type = "rpc:request" -> handleRequest(p, message)
              [] message.type = "rpc:response" -> handleResponse(p, message)
              [] message.type = "rpc:error" -> handleError(p, message)
              [] message.type = "rpc:event" -> handleEvent(p, message)
    /\ last' = [op |-> "handleMessage", p |-> p, data |-> data,
                known |-> /\ message # Null
                          /\ "id" \in DOMAIN message
                          /\ message.id \in DOMAIN pendingRequests[p]]
    /\ UNCHANGED <<durableVars, multi, client, heap, actor, sql>>
    /\ UNCHANGED <<closed, readyState, requestCounter>>

\* the next frame of the other peer arrives on p's socket
Deliver(p) ==
    /\ readyState[p] = OPEN
    /\ recv[p] < Len(sent[Other(p)])
    /\ recv' = [recv EXCEPT ![p] = @ + 1]
    /\ handleMessage(p, sent[Other(p)][recv[p] + 1])
    /\ UNCHANGED actorVars

\* handleMessage called with a frame of the harness
Inject(p, data) ==
    /\ handleMessage(p, data)
    /\ UNCHANGED <<recv, actorVars>>


\* ------------------------------------------------------ DurableRpcPeer
\* options.durableTimeout: the peers of the fixture are built without it
DurableTimeoutOption(p) == None

\* this.durableTimeout = options.durableTimeout ?? options.timeout ?? 30000
durableTimeout(p) ==
    Nullish(DurableTimeoutOption(p), Nullish(OptionsTimeout(p), DefaultTimeoutMs))

\* typeof this.actor[name]: the actor of the fixture has two methods and a
\* property that is no method; any other name is not on the actor
typeofActor(name) ==
    IF name \in actor
    THEN "function"
    ELSE IF name = "notAFunction" THEN "string"
    ELSE "undefined"

\* `durable-${n}`
DurableId(n) == <<"durable-">> \o IdString(n)

\* MemoryPendingCallStorage: a Map keeps its keys in the order of their
\* first insertion, and set() of a present key replaces the value in place
storageSave(st, call) ==
    IF \E i \in 1..Len(st) : st[i].id = call.id
    THEN [i \in 1..Len(st) |-> IF st[i].id = call.id THEN call ELSE st[i]]
    ELSE Append(st, call)

storageGet(st, id) ==
    IF \E i \in 1..Len(st) : st[i].id = id
    THEN st[CHOOSE i \in 1..Len(st) : st[i].id = id]
    ELSE Null

storageDelete(st, id) == SelectSeq(st, LAMBDA c : c.id # id)

\* Array.prototype.sort by timeoutAt: stable, so rows with the same
\* timeoutAt stay in the order of the Map
RECURSIVE SortByTimeoutAt(_)
SortByTimeoutAt(cs) ==
    IF cs = <<>> THEN <<>>
    ELSE LET m == CHOOSE i \in 1..Len(cs) :
                    /\ \A j \in 1..Len(cs) : cs[i].timeoutAt <= cs[j].timeoutAt
                    /\ \A j \in 1..(i - 1) : cs[j].timeoutAt > cs[i].timeoutAt
         IN <<cs[m]>> \o
            SortByTimeoutAt([k \in 1..(Len(cs) - 1) |->
                               IF k < m THEN cs[k] ELSE cs[k + 1]])

\* mutant: the comparison is strict
listExpired_Strict(st, before) ==
    SortByTimeoutAt(SelectSeq(st, LAMBDA c : c.timeoutAt < before))

listExpired(st, before) ==
    SortByTimeoutAt(SelectSeq(st, LAMBDA c : c.timeoutAt <= before))

RECURSIVE deleteAll(_, _)
deleteAll(st, cs) ==
    IF cs = <<>> THEN st
    ELSE deleteAll(storageDelete(st, Head(cs).id), Tail(cs))

\* mutant: the row is saved before the actor is looked at
callWithCallback_SavesFirst(p, method, params, callback, timeout) ==
    LET timeoutMs == Nullish(timeout, durableTimeout(p))
        call == [id |-> DurableId(durableRequestCounter[p] + 1),
                 method |-> method, params |-> params, callback |-> callback,
                 sentAt |-> now, timeoutAt |-> now + timeoutMs]
    IN
    /\ durableRequestCounter[p] < MaxDurable
    /\ durableRequestCounter' = [durableRequestCounter EXCEPT ![p] = @ + 1]
    /\ storage' = storageSave(storage, call)
    /\ IF typeofActor(callback) # "function"
       THEN /\ last' = [op |-> "callWithCallback", p |-> p,
                        callback |-> callback,
                        thrown |-> [name |-> "Error",
                                    message |-> <<"Callback '", callback,
                                        "' is not a function on the actor">>]]
            /\ UNCHANGED sent
       ELSE /\ sent' = [sent EXCEPT ![p] = @ \o
                          IF readyState[p] = OPEN
                          THEN wsSend(p, createRequest(call.id, method, params))
                          ELSE <<>>]
            /\ last' = [op |-> "callWithCallback", p |-> p,
                        callback |-> callback, thrown |-> NoError,
                        rowAtSend |-> storageGet(storage', call.id)]
    /\ UNCHANGED <<closed, readyState, requestCounter, pendingRequests, calls,
                   tasks, recv, now, multi, hostVars>>

\* mutant: the frame is handed to the transport before the row is saved
callWithCallback_SendsFirst(p, method, params, callback, timeout) ==
    LET timeoutMs == Nullish(timeout, durableTimeout(p))
        call == [id |-> DurableId(durableRequestCounter[p] + 1),
                 method |-> method, params |-> params, callback |-> callback,
                 sentAt |-> now, timeoutAt |-> now + timeoutMs]
    IN
    IF typeofActor(callback) # "function"
    THEN /\ last' = [op |-> "callWithCallback", p |-> p, callback |-> callback,
                     thrown |-> [name |-> "Error",
                                 message |-> <<"Callback '", callback,
                                     "' is not a function on the actor">>]]
         /\ UNCHANGED <<closed, readyState, requestCounter, pendingRequests,
                        calls, tasks, sent, recv>>
         /\ UNCHANGED <<durableVars, multi, hostVars>>
    ELSE /\ durableRequestCounter[p] < MaxDurable
         /\ durableRequestCounter' = [durableRequestCounter EXCEPT ![p] = @ + 1]
         /\ sent' = [sent EXCEPT ![p] = @ \o
                       IF readyState[p] = OPEN
                       THEN wsSend(p, createRequest(call.id, method, params))
                       ELSE <<>>]
         /\ storage' = storageSave(storage, call)
         /\ last' = [op |-> "callWithCallback", p |-> p, callback |-> callback,
                     thrown |-> NoError,
                     rowAtSend |-> storageGet(storage, call.id)]
         /\ UNCHANGED <<closed, readyState, requestCounter, pendingRequests,
                        calls, tasks, recv, now, multi, hostVars>>

\* callWithCallback; rowAtSend is what storage.get(call.id) holds at the
\* moment the function reaches its send
callWithCallback(p, method, params, callback, timeout) ==
    LET timeoutMs == Nullish(timeout, durableTimeout(p))
        call == [id |-> DurableId(durableRequestCounter[p] + 1),
                 method |-> method, params |-> params, callback |-> callback,
                 sentAt |-> now, timeoutAt |-> now + timeoutMs]
    IN
    IF typeofActor(callback) # "function"
    THEN /\ last' = [op |-> "callWithCallback", p |-> p, callback |-> callback,
                     thrown |-> [name |-> "Error",
                                 message |-> <<"Callback '", callback,
                                     "' is not a function on the actor">>]]
         /\ UNCHANGED <<closed, readyState, requestCounter, pendingRequests,
                        calls, tasks, sent, recv>>
         /\ UNCHANGED <<durableVars, multi, hostVars>>
    ELSE /\ durableRequestCounter[p] < MaxDurable
         /\ durableRequestCounter' = [durableRequestCounter EXCEPT ![p] = @ + 1]
         /\ storage' = storageSave(storage, call)
         /\ sent' = [sent EXCEPT ![p] = @ \o
                       IF readyState[p] = OPEN
                       THEN wsSend(p, createRequest(call.id, method, params))
                       ELSE <<>>]
         /\ last' = [op |-> "callWithCallback", p |-> p, callback |-> callback,
                     thrown |-> NoError,
                     rowAtSend |-> storageGet(storage', call.id)]
         /\ UNCHANGED <<closed, readyState, requestCounter, pendingRequests,
                        calls, tasks, recv, now, multi, hostVars>>

\* what the actor is called with when the durable call whose row is `call`
\* is completed by `message`: nothing when the callback is no method of the
\* actor
actorCalls(message, call) ==
    LET context == [call |-> call, latencyMs |-> now - call.sentAt]
        payload == IF message.type = "rpc:response"
                   THEN Get(message, "result")
                   ELSE [name |-> "Error", message |-> message.message]
    IN
    IF typeofActor(call.callback) = "function"
    THEN <<[callback |-> call.callback, payload |-> payload,
            context |-> context]>>
    ELSE <<>>

\* mutant: the callback is invoked and the row is left in the storage
durableHandleMessage_KeepsRow(p, data) ==
    LET message == safeDecodeMessage(data)
        call == IF message # Null
                   /\ message.type \in {"rpc:response", "rpc:error"}
                THEN storageGet(storage, message.id) ELSE Null
    IN
    IF call = Null
    THEN handleMessage(p, data)
    ELSE /\ last' = [op |-> "handleMessage", p |-> p, data |-> data,
                     known |-> FALSE, durable |-> call,
                     invoked |-> actorCalls(message, call)]
         /\ UNCHANGED <<closed, readyState, requestCounter, pendingRequests,
                        calls, tasks, sent, storage, durableRequestCounter,
                        now, multi, client, heap, actor, sql>>

\* DurableRpcPeer.handleMessage: a reply whose id has a row in the storage
\* goes to the actor, everything else to RpcPeer.handleMessage; invoked are
\* the calls the step makes of methods of the actor
durableHandleMessage(p, data) ==
    LET message == safeDecodeMessage(data)
        call == IF message # Null
                   /\ message.type \in {"rpc:response", "rpc:error"}
                THEN storageGet(storage, message.id) ELSE Null
    IN
    IF call = Null
    THEN handleMessage(p, data)
    ELSE /\ storage' = storageDelete(storage, message.id)
         /\ last' = [op |-> "handleMessage", p |-> p, data |-> data,
                     known |-> FALSE, durable |-> call,
                     invoked |-> actorCalls(message, call)]
         /\ UNCHANGED <<closed, readyState, requestCounter, pendingRequests,
                        calls, tasks, sent, durableRequestCounter, now, multi, client, heap, actor, sql>>

\* handleMessage of a DurableRpcPeer called with a frame of the harness
DurableInject(p, data) ==
    /\ durableHandleMessage(p, data)
    /\ UNCHANGED <<recv, actorVars>>

\* cleanupExpired
cleanupExpired(p) ==
    LET expired == listExpired(storage, now) IN
    /\ storage' = deleteAll(storage, expired)
    /\ last' = [op |-> "cleanupExpired", p |-> p, returned |-> expired,
                invoked |-> <<>>]
    /\ UNCHANGED <<closed, readyState, requestCounter, pendingRequests, calls,
                   tasks, sent, recv, durableRequestCounter, now, multi, hostVars>>

\* clearPendingCalls
clearPendingCalls(p) ==
    /\ storage' = <<>>
    /\ last' = [op |-> "clearPendingCalls", p |-> p]
    /\ UNCHANGED <<closed, readyState, requestCounter, pendingRequests, calls,
                   tasks, sent, recv, durableRequestCounter, now, multi, hostVars>>

\* mutant: the new peer starts from an empty storage
Recreate_ClearsStorage(p) ==
    /\ closed' = [closed EXCEPT ![p] = FALSE]
    /\ readyState' = [readyState EXCEPT ![p] = OPEN]
    /\ sent' = [sent EXCEPT ![p] = <<>>]
    /\ requestCounter' = [requestCounter EXCEPT ![p] = 0]
    /\ pendingRequests' = [pendingRequests EXCEPT ![p] = EmptyMap]
    /\ calls' = [calls EXCEPT ![p] = <<>>]
    /\ durableRequestCounter' = [durableRequestCounter EXCEPT ![p] = 0]
    /\ storage' = <<>>
    /\ last' = [op |-> "recreate", p |-> p]
    /\ UNCHANGED <<tasks, recv, now, multi, hostVars>>

\* hibernation: the peer object and everything it holds in memory is gone,
\* and a new DurableRpcPeer is constructed on the same storage with a new
\* socket object
Recreate(p) ==
    /\ closed' = [closed EXCEPT ![p] = FALSE]
    /\ readyState' = [readyState EXCEPT ![p] = OPEN]
    /\ sent' = [sent EXCEPT ![p] = <<>>]
    /\ requestCounter' = [requestCounter EXCEPT ![p] = 0]
    /\ pendingRequests' = [pendingRequests EXCEPT ![p] = EmptyMap]
    /\ calls' = [calls EXCEPT ![p] = <<>>]
    /\ durableRequestCounter' = [durableRequestCounter EXCEPT ![p] = 0]
    /\ last' = [op |-> "recreate", p |-> p]
    /\ UNCHANGED <<tasks, recv, storage, now, multi, hostVars>>

\* hibernation, and the new DurableRpcPeer is constructed with options.actor
\* an object whose methods are `methods`
RecreateWith(p, methods) ==
    /\ closed' = [closed EXCEPT ![p] = FALSE]
    /\ readyState' = [readyState EXCEPT ![p] = OPEN]
    /\ sent' = [sent EXCEPT ![p] = <<>>]
    /\ requestCounter' = [requestCounter EXCEPT ![p] = 0]
    /\ pendingRequests' = [pendingRequests EXCEPT ![p] = EmptyMap]
    /\ calls' = [calls EXCEPT ![p] = <<>>]
    /\ durableRequestCounter' = [durableRequestCounter EXCEPT ![p] = 0]
    /\ actor' = methods
    /\ last' = [op |-> "recreate", p |-> p]
    /\ UNCHANGED <<tasks, recv, storage, now, multi, peerMap, hooks, client,
                   heap, sql>>

\* Date.now() moves on by one unit, and so do the timers
ClockTick ==
    /\ now < MaxNow
    /\ now' = now + 1
    /\ calls' = [p \in Peers |->
                   [cn \in 1..Len(calls[p]) |->
                      [calls[p][cn] EXCEPT !.left = IF @ > 0 THEN @ - 1 ELSE 0]]]
    /\ multi' = elapse(multi)
    /\ last' = [op |-> "tick"]
    /\ UNCHANGED <<closed, readyState, requestCounter, pendingRequests, tasks,
                   sent, recv, storage, durableRequestCounter, hostVars>>

\* ---------------------------------------------------------- Multi-Peer
\* this.peers, in insertion order: the peers createPeer made, with
\* `timeout: this.timeout`; B is a peer of its own and not in the map
MultiPeers == <<"A", "C">>

\* this.timeout = options.timeout ?? 30000, what OptionsTimeout gives A and C
MultiTimeout == Nullish(Some(2), DefaultTimeoutMs)

\* options.ids: absent, one id, or an array of ids
IdsUndefined == [kind |-> "undefined"]

IdsString(id) == [kind |-> "string", id |-> id]

IdsArray(ids) == [kind |-> "array", ids |-> ids]

\* `!this.closed && this.ws.readyState === 1`
isOpen(p) == ~closed[p] /\ readyState[p] = OPEN

\* this.peers.get(id): the peer, or undefined
getPeer(id) ==
    IF \E i \in 1..Len(MultiPeers) : MultiPeers[i] = id THEN id ELSE Undefined

\* `.filter((p) => p?.isOpen === true)`
RECURSIVE filterOpen(_)
filterOpen(ps) ==
    IF ps = <<>> THEN <<>>
    ELSE (IF Head(ps) # Undefined /\ isOpen(Head(ps)) THEN <<Head(ps)>> ELSE <<>>)
         \o filterOpen(Tail(ps))

\* the peers a driver call goes to
targetPeers(ids) ==
    IF ids.kind = "undefined" THEN filterOpen(MultiPeers)
    ELSE IF ids.kind = "string" THEN filterOpen(<<getPeer(ids.id)>>)
    ELSE filterOpen([i \in 1..Len(ids.ids) |-> getPeer(ids.ids[i])])

\* `peerDriver[method](input)` and the timer raced against it, for one target:
\* st holds the peers' fields as the calls before it left them
raceFor(st, p, method, input, timeout) ==
    LET parseResult == safeParse(input)
        id == IdString(st.requestCounter[p] + 1)
        timeoutMs == defaultTimeout(p)
        cn == Len(st.calls[p]) + 1
        call == [id |-> id, method |-> method, timeoutMs |-> timeoutMs,
                 timer |-> "armed", left |-> timeoutMs, events |-> <<>>]
        thrown == IF connectionClosed(p) THEN RpcConnectionClosed
                  ELSE IF method \notin RemoteMethods(p)
                  THEN RpcMethodNotFoundError(method)
                  ELSE IF ~parseResult.success
                  THEN RpcValidationError(method, parseResult.error)
                  ELSE NoError
        entry == [peer |-> p, call |-> IF thrown = NoError THEN cn ELSE 0,
                  thrown |-> thrown, timer |-> "armed", left |-> timeout,
                  timedOut |-> FALSE]
    IN
    IF thrown # NoError
    THEN [st EXCEPT !.entries = Append(@, entry)]
    ELSE [requestCounter |-> [st.requestCounter EXCEPT ![p] = @ + 1],
          calls |-> [st.calls EXCEPT ![p] = Append(@, call)],
          pendingRequests |-> [st.pendingRequests EXCEPT ![p] =
                                 MapSet(@, id, [call |-> cn, method |-> method])],
          sent |-> [st.sent EXCEPT ![p] =
                      @ \o wsSend(p, createRequest(id, method, parseResult.data))],
          entries |-> Append(st.entries, entry)]

\* `targetPeers.map(async (peer) => ...)`: the targets in order
RECURSIVE fanOut(_, _, _, _, _)
fanOut(st, targets, method, input, timeout) ==
    IF targets = <<>> THEN st
    ELSE fanOut(raceFor(st, Head(targets), method, input, timeout),
                Tail(targets), method, input, timeout)

\* a call of a method of the Multi-Peer driver
MultiCall(method, input, ids, optTimeout) ==
    LET timeout == Nullish(optTimeout, MultiTimeout)
        st == fanOut([requestCounter |-> requestCounter, calls |-> calls,
                      pendingRequests |-> pendingRequests, sent |-> sent,
                      entries |-> <<>>],
                     targetPeers(ids), method, input, timeout)
    IN
    /\ Len(multi) < MaxMulti
    /\ \A p \in Peers : st.requestCounter[p] <= MaxCalls
    /\ requestCounter' = st.requestCounter
    /\ calls' = st.calls
    /\ pendingRequests' = st.pendingRequests
    /\ sent' = st.sent
    /\ multi' = Append(multi, [method |-> method, timeout |-> timeout,
                               entries |-> st.entries])
    /\ last' = [op |-> "multiCall", m |-> Len(multi) + 1, ids |-> ids,
                input |-> input]
    /\ UNCHANGED <<durableVars, hostVars>>
    /\ UNCHANGED <<closed, readyState, tasks, recv>>

\* what peer.emit(event, data) hands to the socket of p
emitFrames(p, event, data) ==
    LET parseResult == safeParse(data) IN
    IF connectionClosed(p) THEN <<>>
    ELSE IF event \notin LocalEvents(p) THEN <<>>
    ELSE IF ~parseResult.success THEN <<>>
    ELSE wsSend(p, createEvent(event, parseResult.data))

\* mutant: `ids` is not looked at
validPeers_IgnoresIds(ids) ==
    {MultiPeers[i] : i \in {j \in 1..Len(MultiPeers) : isOpen(MultiPeers[j])}}

\* the peers of the map that emit goes to: `ids.includes(p.id) && p.isOpen`,
\* or `p.isOpen` when ids is not given
validPeers(ids) ==
    {MultiPeers[i] : i \in
        {j \in 1..Len(MultiPeers) :
            /\ isOpen(MultiPeers[j])
            /\ ids.kind = "array" =>
                  \E k \in 1..Len(ids.ids) : ids.ids[k] = MultiPeers[j]}}

\* emit of the Multi-Peer
MultiEmit(event, data, ids) ==
    /\ sent' = [p \in Peers |->
                  IF p \in validPeers(ids)
                  THEN sent[p] \o emitFrames(p, event, data)
                  ELSE sent[p]]
    /\ last' = [op |-> "multiEmit", event |-> event, data |-> data,
                ids |-> ids]
    /\ UNCHANGED <<durableVars, multi, hostVars>>
    /\ UNCHANGED <<closed, readyState, requestCounter, pendingRequests, calls,
                   tasks, recv>>

\* `new Error(`Timeout after ${timeout}ms`)`
TimeoutAfter(timeout) ==
    [name |-> "Error", message |-> <<"Timeout after ", timeout, "ms">>]

\* the callback of the timer of a race: its rejection settles the race only
\* when the call has not settled it
raceTimerCallback(m, k) ==
    LET e == multi[m].entries[k] IN
    /\ multi' = [multi EXCEPT ![m].entries[k] =
                   [@ EXCEPT !.timer = "fired",
                             !.timedOut = /\ e.thrown = NoError
                                          /\ calls[e.peer][e.call].events = <<>>]]
    /\ last' = [op |-> "raceTimeout", m |-> m, k |-> k]
    /\ UNCHANGED <<durableVars, hostVars>>
    /\ UNCHANGED <<closed, readyState, requestCounter, pendingRequests, calls,
                   tasks, sent, recv>>

\* the timer of a race fires when it is due; of two timers due at the same
\* time the one set first, the call's own, runs first
RaceTimerFire(m, k) ==
    /\ m \in 1..Len(multi)
    /\ k \in 1..Len(multi[m].entries)
    /\ multi[m].entries[k].timer = "armed"
    /\ multi[m].entries[k].left = 0
    /\ LET e == multi[m].entries[k] IN
          e.call # 0 =>
             ~(calls[e.peer][e.call].timer = "armed"
               /\ calls[e.peer][e.call].left = 0)
    /\ raceTimerCallback(m, k)

\* what Promise.race settled to, as the entry's `result`
Pending == [success |-> "pending"]

Success(value) == [success |-> "true", value |-> value]

Failure(error) == [success |-> "false", error |-> error]

entryResult(m, k) ==
    LET e == multi[m].entries[k] IN
    IF e.thrown # NoError THEN Failure(e.thrown)
    ELSE IF e.timedOut THEN Failure(TimeoutAfter(multi[m].timeout))
    ELSE IF calls[e.peer][e.call].events = <<>> THEN Pending
    ELSE LET ev == calls[e.peer][e.call].events[1] IN
         IF ev.name = "resolve" THEN Success(ev.value) ELSE Failure(ev)

\* the array `Promise.all(promises)` resolves to, entry by entry
results(m) ==
    [k \in 1..Len(multi[m].entries) |->
       [id |-> multi[m].entries[k].peer, result |-> entryResult(m, k)]]

\* a timer that is due and has not run
TimerDue ==
    \/ \E p \in Peers : \E cn \in 1..Len(calls[p]) :
          calls[p][cn].timer = "armed" /\ calls[p][cn].left = 0
    \/ \E m \in 1..Len(multi) : \E k \in 1..Len(multi[m].entries) :
          multi[m].entries[k].timer = "armed" /\ multi[m].entries[k].left = 0

\* the event loop runs the timers that are due before later ones become due
MultiTick == ~TimerDue /\ Tick

\* ------------------------------------------------- RpcActor, DOMultiPeer
\* this.hooks.<hook>?.(peer, ...) for the peer of connection h
fire(hs, h, hook) == [hs EXCEPT ![h][hook] = @ + 1]

\* mutant: onPeerRecreated fires whenever getOrCreatePeer is called for a
\* recovery, also when the connection has its peer
getOrCreatePeer_AlwaysFires(ws, isHibernationRecovery) ==
    IF ws \notin peerMap
    THEN /\ peerMap' = peerMap \cup {ws}
         /\ hooks' = IF isHibernationRecovery
                     THEN fire(fire(hooks, ws, "onConnect"), ws, "onPeerRecreated")
                     ELSE fire(hooks, ws, "onConnect")
    ELSE /\ hooks' = fire(hooks, ws, "onPeerRecreated")
         /\ UNCHANGED peerMap

\* getOrCreatePeer: createPeerWithProvider and addPeer (peers.set and
\* onConnect) when the connection has no peer, then onPeerRecreated; the
\* fields of a peer that is not in the map are those its constructor sets
getOrCreatePeer(ws, isHibernationRecovery) ==
    IF ws \notin peerMap
    THEN /\ peerMap' = peerMap \cup {ws}
         /\ hooks' = IF isHibernationRecovery
                     THEN fire(fire(hooks, ws, "onConnect"), ws, "onPeerRecreated")
                     ELSE fire(hooks, ws, "onConnect")
    ELSE UNCHANGED <<peerMap, hooks>>

\* connectPeer, for a connection the actor has accepted
onWebSocketConnect(ws) ==
    /\ ws \notin peerMap
    /\ readyState[ws] = OPEN
    /\ hooks[ws].onConnect = 0
    /\ peerMap' = peerMap \cup {ws}
    /\ hooks' = fire(hooks, ws, "onConnect")
    /\ last' = [op |-> "connect", p |-> ws]
    /\ UNCHANGED <<durableVars, multi, client, heap, actor, sql>>
    /\ UNCHANGED <<closed, readyState, requestCounter, pendingRequests, calls,
                   tasks, sent, recv>>

\* a frame arrives on connection ws
onWebSocketMessage(ws, message) ==
    LET existingPeer == ws \in peerMap IN
    /\ readyState[ws] = OPEN
    /\ hooks[ws].onConnect < MaxCreated \/ existingPeer
    /\ getOrCreatePeer(ws, ~existingPeer)
    /\ durableHandleMessage(ws, message)
    /\ UNCHANGED recv

\* the actor is evicted from memory: its peers and their fields are gone,
\* the connections and the storage stay
Hibernate ==
    /\ peerMap # {}
    /\ peerMap' = {}
    /\ closed' = [p \in Peers |-> FALSE]
    /\ requestCounter' = [p \in Peers |-> 0]
    /\ pendingRequests' = [p \in Peers |-> EmptyMap]
    /\ calls' = [p \in Peers |-> <<>>]
    /\ tasks' = [p \in Peers |-> <<>>]
    /\ durableRequestCounter' = [p \in Peers |-> 0]
    /\ last' = [op |-> "hibernate"]
    /\ UNCHANGED <<readyState, sent, recv, storage, now, multi, hooks, client,
                   heap, actor, sql>>

\* ------------------------------------------- MultiPeerBase and RpcServer
\* peer.close() for every peer of S
closeEach(S) ==
    /\ closed' = [p \in Peers |-> closed[p] \/ p \in S]
    /\ calls' = [p \in Peers |->
                   IF p \in S
                   THEN rejectAll(calls[p], pendingRequests[p],
                                  DOMAIN pendingRequests[p])
                   ELSE calls[p]]
    /\ pendingRequests' = [p \in Peers |->
                             IF p \in S THEN EmptyMap ELSE pendingRequests[p]]

\* what the steps of the server leave alone
serverFrame ==
    /\ UNCHANGED <<durableVars, multi, client, heap, actor, sql>>
    /\ UNCHANGED <<requestCounter, tasks, sent, recv>>

\* handleConnection: the server is given connection ws, once
handleConnection(ws) ==
    /\ ws \notin peerMap
    /\ readyState[ws] = OPEN
    /\ hooks[ws].onConnect = 0
    /\ peerMap' = peerMap \cup {ws}
    /\ hooks' = fire(hooks, ws, "onConnect")
    /\ last' = [op |-> "connect", p |-> ws]
    /\ serverFrame
    /\ UNCHANGED <<closed, readyState, calls, pendingRequests>>

\* removePeer
removePeer(connection) ==
    IF connection \in peerMap
    THEN /\ closeEach({connection})
         /\ peerMap' = peerMap \ {connection}
         /\ hooks' = fire(hooks, connection, "onDisconnect")
    ELSE UNCHANGED <<closed, calls, pendingRequests, peerMap, hooks>>

\* the close event of connection ws: ws.onclose
wsOnClose(ws) ==
    /\ hooks[ws].onConnect > 0
    /\ readyState[ws] # CLOSED
    /\ readyState' = [readyState EXCEPT ![ws] = CLOSED]
    /\ removePeer(ws)
    /\ last' = [op |-> "wsOnClose", p |-> ws]
    /\ serverFrame

\* the error event of connection ws: ws.onerror calls hooks.onError
wsOnError(ws) ==
    /\ hooks[ws].onConnect > 0
    /\ readyState[ws] # CLOSED
    /\ last' = [op |-> "wsOnError", p |-> ws]
    /\ serverFrame
    /\ UNCHANGED <<closed, readyState, calls, pendingRequests, peerMap, hooks>>

\* DOMultiPeer.handleError: onWebSocketError of the actor
doHandleError(ws) ==
    /\ hooks[ws].onConnect > 0
    /\ readyState[ws] # CLOSED
    /\ removePeer(ws)
    /\ last' = [op |-> "handleError", p |-> ws, peer |-> ws \in peerMap]
    /\ serverFrame
    /\ UNCHANGED readyState

\* RpcServer.closePeer(id): the id of a peer is the name of its connection
closePeer(id) ==
    /\ IF id \in peerMap
       THEN /\ readyState' = [readyState EXCEPT ![id] =
                                IF @ # CLOSED THEN CLOSING ELSE @]
            /\ closeEach({id})
            /\ peerMap' = peerMap \ {id}
            /\ hooks' = fire(hooks, id, "onDisconnect")
       ELSE UNCHANGED <<readyState, closed, calls, pendingRequests, peerMap,
                        hooks>>
    /\ last' = [op |-> "closePeer", id |-> id, returned |-> id \in peerMap]
    /\ serverFrame

\* mutant: closeAll leaves the peers in the map
closeAll_KeepsPeers ==
    /\ closeEach(peerMap)
    /\ hooks' = [h \in Peers |->
                   IF h \in peerMap
                   THEN [hooks[h] EXCEPT !.onDisconnect = @ + 1] ELSE hooks[h]]
    /\ peerMap' = peerMap

\* closeAll
closeAll ==
    /\ closeEach(peerMap)
    /\ hooks' = [h \in Peers |->
                   IF h \in peerMap
                   THEN [hooks[h] EXCEPT !.onDisconnect = @ + 1] ELSE hooks[h]]
    /\ peerMap' = {}

\* RpcServer.close(): the connections of the open peers are closed, then
\* closeAll
serverClose ==
    /\ readyState' = [p \in Peers |->
                        IF p \in peerMap /\ isOpen(p) /\ readyState[p] # CLOSED
                        THEN CLOSING ELSE readyState[p]]
    /\ closeAll
    /\ last' = [op |-> "serverClose", peers |-> peerMap]
    /\ serverFrame

\* ------------------------- MemoryPendingCallStorage and its caller's objects
\* heap.mem: the `params` objects by address, each with the value it holds;
\* heap.calls: the values of the Map `calls`, whose `params` is an address;
\* heap.held: the PendingCall objects the caller holds, those it passed to
\* save and those get returned

\* `new MemoryPendingCallStorage(options)`
newStorage(paramsCodec) ==
    /\ ~heap.made
    /\ heap' = [heap EXCEPT !.made = TRUE, !.paramsCodec = paramsCodec]
    /\ last' = [op |-> "newStorage"]
    /\ UNCHANGED <<durableVars, multi, peerMap, hooks, client, actor, sql>>
    /\ UNCHANGED <<closed, readyState, requestCounter, pendingRequests, calls,
                   tasks, sent, recv>>

\* `{ ...call }`: a new object whose fields hold what the fields of `call`
\* hold, so its `params` is the same object
spread(call) == call

\* the caller makes a PendingCall with a new params object and saves it;
\* paramsCodec.decode(paramsCodec.encode(params)) is a new object that holds
\* the same JSON value
heapSave(id, sentAt, timeoutAt) ==
    LET addr == Len(heap.mem) + 1
        call == [id |-> id, method |-> "testMethod", params |-> addr,
                 callback |-> "onResult", sentAt |-> sentAt,
                 timeoutAt |-> timeoutAt]
        mem == IF heap.paramsCodec THEN <<"raw", "raw">> ELSE <<"raw">>
        params == IF heap.paramsCodec THEN addr + 1 ELSE call.params
    IN
    /\ heap.made
    /\ Len(heap.held) < MaxHeld
    /\ heap' = [heap EXCEPT
                  !.mem = @ \o mem,
                  !.calls = storageSave(@, [spread(call) EXCEPT !.params = params]),
                  !.held = Append(@, call)]
    /\ last' = [op |-> "save", id |-> id]
    /\ UNCHANGED <<durableVars, multi, peerMap, hooks, client, actor, sql>>
    /\ UNCHANGED <<closed, readyState, requestCounter, pendingRequests, calls,
                   tasks, sent, recv>>

\* the caller keeps what get(id) returned
heapGet(id) ==
    LET call == storageGet(heap.calls, id) IN
    /\ heap.made
    /\ Len(heap.held) < MaxHeld
    /\ call # Null
    /\ heap' = [heap EXCEPT !.held = Append(@, spread(call))]
    /\ last' = [op |-> "get", id |-> id]
    /\ UNCHANGED <<durableVars, multi, peerMap, hooks, client, actor, sql>>
    /\ UNCHANGED <<closed, readyState, requestCounter, pendingRequests, calls,
                   tasks, sent, recv>>

\* `held.method = "modified"`
mutateField(k) ==
    /\ k \in 1..Len(heap.held)
    /\ heap' = [heap EXCEPT !.held[k].method = "modified"]
    /\ last' = [op |-> "mutateField", k |-> k]
    /\ UNCHANGED <<durableVars, multi, peerMap, hooks, client, actor, sql>>
    /\ UNCHANGED <<closed, readyState, requestCounter, pendingRequests, calls,
                   tasks, sent, recv>>

\* `held.params.x = "modified"`
mutateParams(k) ==
    /\ k \in 1..Len(heap.held)
    /\ heap' = [heap EXCEPT !.mem[heap.held[k].params] = "modified"]
    /\ last' = [op |-> "mutateParams", k |-> k]
    /\ UNCHANGED <<durableVars, multi, peerMap, hooks, client, actor, sql>>
    /\ UNCHANGED <<closed, readyState, requestCounter, pendingRequests, calls,
                   tasks, sent, recv>>

\* a PendingCall as its reader sees it, the params object included
deep(hp, call) ==
    IF call = Null THEN Null ELSE [call EXCEPT !.params = hp.mem[call.params]]

\* Array.prototype.sort by sentAt, stable
RECURSIVE SortBySentAt(_)
SortBySentAt(cs) ==
    IF cs = <<>> THEN <<>>
    ELSE LET m == CHOOSE i \in 1..Len(cs) :
                    /\ \A j \in 1..Len(cs) : cs[i].sentAt <= cs[j].sentAt
                    /\ \A j \in 1..(i - 1) : cs[j].sentAt > cs[i].sentAt
         IN <<cs[m]>> \o
            SortBySentAt([k \in 1..(Len(cs) - 1) |->
                            IF k < m THEN cs[k] ELSE cs[k + 1]])

listAll(st) == SortBySentAt([i \in 1..Len(st) |-> spread(st[i])])

\* what get(id), listAll() and listExpired(before) return in heap hp
getResult(hp, id) == deep(hp, storageGet(hp.calls, id))

listAllResult(hp) ==
    LET cs == listAll(hp.calls) IN [i \in 1..Len(cs) |-> deep(hp, cs[i])]

listExpiredResult(hp, before) ==
    LET cs == listExpired(hp.calls, before) IN
    [i \in 1..Len(cs) |-> deep(hp, cs[i])]

\* ------------------------------------------- the codecs, value by value
\* the values of JavaScript a message is made of: strings, numbers, NaN,
\* booleans, null, undefined, Date, arrays and plain objects
JsString(s) == [t |-> "string", s |-> s]

JsNumber(n) == [t |-> "number", n |-> n]

JsNaN == [t |-> "NaN"]

JsBoolean(b) == [t |-> "boolean", b |-> b]

JsNull == [t |-> "null"]

JsUndefined == [t |-> "undefined"]

JsDate(ms) == [t |-> "Date", ms |-> ms]

JsArray(items) == [t |-> "array", items |-> items]

JsObject(fields) == [t |-> "object", fields |-> fields]

\* Date.prototype.toISOString for the dates of the model
toISOString(ms) == IF ms = 5 THEN "1970-01-01T00:00:00.005Z" ELSE "1970-01-01T00:00:00.000Z"

\* the JSON text as its grammar reads it; a member whose value is omitted
\* is not written
JsonOmitted == [j |-> "omitted"]

\* mutant: null is left out of an object like undefined
RECURSIVE JSONstringify_OmitsNull(_)
JSONstringify_OmitsNull(v) ==
    CASE v.t = "string" -> [j |-> "string", s |-> v.s]
      [] v.t = "number" -> [j |-> "number", n |-> v.n]
      [] v.t = "boolean" -> [j |-> "literal", b |-> v.b]
      [] v.t = "null" -> JsonOmitted
      [] v.t = "NaN" -> [j |-> "null"]
      [] v.t = "undefined" -> JsonOmitted
      [] v.t = "Date" -> [j |-> "string", s |-> toISOString(v.ms)]
      [] v.t = "array" ->
           [j |-> "array",
            elements |-> [i \in 1..Len(v.items) |->
                            IF JSONstringify_OmitsNull(v.items[i]) = JsonOmitted
                            THEN [j |-> "null"]
                            ELSE JSONstringify_OmitsNull(v.items[i])]]
      [] v.t = "object" ->
           [j |-> "object",
            members |-> [k \in {f \in DOMAIN v.fields :
                                  JSONstringify_OmitsNull(v.fields[f]) # JsonOmitted}
                           |-> JSONstringify_OmitsNull(v.fields[k])]]

\* JSON.stringify: undefined is left out of an object and is null in an
\* array, NaN is null, a Date is its toJSON() string
RECURSIVE JSONstringify(_)
JSONstringify(v) ==
    CASE v.t = "string" -> [j |-> "string", s |-> v.s]
      [] v.t = "number" -> [j |-> "number", n |-> v.n]
      [] v.t = "boolean" -> [j |-> "literal", b |-> v.b]
      [] v.t = "null" -> [j |-> "null"]
      [] v.t = "NaN" -> [j |-> "null"]
      [] v.t = "undefined" -> JsonOmitted
      [] v.t = "Date" -> [j |-> "string", s |-> toISOString(v.ms)]
      [] v.t = "array" ->
           [j |-> "array",
            elements |-> [i \in 1..Len(v.items) |->
                            IF JSONstringify(v.items[i]) = JsonOmitted
                            THEN [j |-> "null"]
                            ELSE JSONstringify(v.items[i])]]
      [] v.t = "object" ->
           [j |-> "object",
            members |-> [k \in {f \in DOMAIN v.fields :
                                  JSONstringify(v.fields[f]) # JsonOmitted}
                           |-> JSONstringify(v.fields[k])]]

RECURSIVE JSONparse(_)
JSONparse(w) ==
    CASE w.j = "string" -> JsString(w.s)
      [] w.j = "number" -> JsNumber(w.n)
      [] w.j = "literal" -> JsBoolean(w.b)
      [] w.j = "null" -> JsNull
      [] w.j = "array" ->
           JsArray([i \in 1..Len(w.elements) |-> JSONparse(w.elements[i])])
      [] w.j = "object" ->
           JsObject([k \in DOMAIN w.members |-> JSONparse(w.members[k])])

\* encode of @msgpack/msgpack: undefined and null are nil, NaN is a float,
\* a Date is the timestamp extension, every key of an object is written
RECURSIVE msgpackEncode(_)
msgpackEncode(v) ==
    CASE v.t = "string" -> [mp |-> "str", s |-> v.s]
      [] v.t = "number" -> [mp |-> "int", n |-> v.n]
      [] v.t = "boolean" -> [mp |-> "bool", b |-> v.b]
      [] v.t = "null" -> [mp |-> "nil"]
      [] v.t = "undefined" -> [mp |-> "nil"]
      [] v.t = "NaN" -> [mp |-> "float NaN"]
      [] v.t = "Date" -> [mp |-> "timestamp", ms |-> v.ms]
      [] v.t = "array" ->
           [mp |-> "array",
            elements |-> [i \in 1..Len(v.items) |-> msgpackEncode(v.items[i])]]
      [] v.t = "object" ->
           [mp |-> "map",
            members |-> [k \in DOMAIN v.fields |-> msgpackEncode(v.fields[k])]]

RECURSIVE msgpackDecode(_)
msgpackDecode(w) ==
    CASE w.mp = "str" -> JsString(w.s)
      [] w.mp = "int" -> JsNumber(w.n)
      [] w.mp = "bool" -> JsBoolean(w.b)
      [] w.mp = "nil" -> JsNull
      [] w.mp = "float NaN" -> JsNaN
      [] w.mp = "timestamp" -> JsDate(w.ms)
      [] w.mp = "array" ->
           JsArray([i \in 1..Len(w.elements) |-> msgpackDecode(w.elements[i])])
      [] w.mp = "map" ->
           JsObject([k \in DOMAIN w.members |-> msgpackDecode(w.members[k])])

\* Encoder of cbor-x: undefined is the simple value undefined, a Date is
\* tag 1, a plain object is a map
RECURSIVE cborEncode(_)
cborEncode(v) ==
    CASE v.t = "string" -> [cb |-> "text", s |-> v.s]
      [] v.t = "number" -> [cb |-> "int", n |-> v.n]
      [] v.t = "boolean" -> [cb |-> "bool", b |-> v.b]
      [] v.t = "null" -> [cb |-> "null"]
      [] v.t = "undefined" -> [cb |-> "undefined"]
      [] v.t = "NaN" -> [cb |-> "float NaN"]
      [] v.t = "Date" -> [cb |-> "tag 1", ms |-> v.ms]
      [] v.t = "array" ->
           [cb |-> "array",
            elements |-> [i \in 1..Len(v.items) |-> cborEncode(v.items[i])]]
      [] v.t = "object" ->
           [cb |-> "map",
            members |-> [k \in DOMAIN v.fields |-> cborEncode(v.fields[k])]]

RECURSIVE cborDecode(_)
cborDecode(w) ==
    CASE w.cb = "text" -> JsString(w.s)
      [] w.cb = "int" -> JsNumber(w.n)
      [] w.cb = "bool" -> JsBoolean(w.b)
      [] w.cb = "null" -> JsNull
      [] w.cb = "undefined" -> JsUndefined
      [] w.cb = "float NaN" -> JsNaN
      [] w.cb = "tag 1" -> JsDate(w.ms)
      [] w.cb = "array" ->
           JsArray([i \in 1..Len(w.elements) |-> cborDecode(w.elements[i])])
      [] w.cb = "map" ->
           JsObject([k \in DOMAIN w.members |-> cborDecode(w.members[k])])

\* the serialize and deserialize a codec factory is given
serialize(codec, v) ==
    CASE codec = "json" -> JSONstringify(v)
      [] codec = "msgpack" -> msgpackEncode(v)
      [] codec = "cbor" -> cborEncode(v)

deserialize(codec, w) ==
    CASE codec = "json" -> JSONparse(w)
      [] codec = "msgpack" -> msgpackDecode(w)
      [] codec = "cbor" -> cborDecode(w)

\* z.string(), and z.unknown() for the keys that take any value
isString(v, k) == k \in DOMAIN v.fields /\ v.fields[k].t = "string"

\* the union of the four z.object schemas: the value it accepts, with the
\* keys the schema does not name stripped, or Null
RpcMessageParse(v) ==
    LET keep(ks) == JsObject([k \in ks \cap DOMAIN v.fields |-> v.fields[k]])
        type == IF v.t = "object" /\ isString(v, "type") THEN v.fields.type.s
                ELSE "none"
    IN
    IF type = "rpc:request" /\ isString(v, "id") /\ isString(v, "method")
    THEN keep({"type", "id", "method", "params"})
    ELSE IF type = "rpc:response" /\ isString(v, "id")
    THEN keep({"type", "id", "result"})
    ELSE IF /\ type = "rpc:error" /\ isString(v, "id") /\ isString(v, "message")
            /\ "code" \in DOMAIN v.fields /\ v.fields.code.t = "number"
    THEN keep({"type", "id", "code", "message", "data"})
    ELSE IF type = "rpc:event" /\ isString(v, "event")
    THEN keep({"type", "event", "data"})
    ELSE Null

\* codec.encode(message): the message goes through the schema, then
\* through serialize
codecEncode(codec, m) == serialize(codec, RpcMessageParse(m))

\* decodeMessage(wire): deserialize, then the schema
decodeMessage(codec, wire) == RpcMessageParse(deserialize(codec, wire))

\* toEqual of the tests: recursively equal, where a key that holds undefined
\* counts like a key that is absent
RECURSIVE stripUndefined(_)
stripUndefined(v) ==
    CASE v.t = "array" ->
           JsArray([i \in 1..Len(v.items) |-> stripUndefined(v.items[i])])
      [] v.t = "object" ->
           JsObject([k \in {f \in DOMAIN v.fields : v.fields[f] # JsUndefined}
                       |-> stripUndefined(v.fields[k])])
      [] OTHER -> v

toEqual(a, b) == a # Null /\ b # Null /\ stripUndefined(a) = stripUndefined(b)

\* one message is encoded and the frame decoded
RoundTrip(codec, m) ==
    /\ last' = [op |-> "roundTrip", codec |-> codec, m |-> m,
                decoded |-> decodeMessage(codec, codecEncode(codec, m))]
    /\ UNCHANGED <<durableVars, multi, hostVars>>
    /\ UNCHANGED <<closed, readyState, requestCounter, pendingRequests, calls,
                   tasks, sent, recv>>

\* ------------------------------------------------- SqlPendingCallStorage
\* ensureTable: CREATE TABLE IF NOT EXISTS and CREATE INDEX IF NOT EXISTS
ensureTable(s) == [s EXCEPT !.initialized = TRUE]

\* mutant: INSERT OR IGNORE, the row that is there stays
sqlSave_KeepsOld(s, call) ==
    LET row == [id |-> call.id, method |-> call.method,
                params |-> JSONstringify(call.params),
                callback |-> call.callback, sent_at |-> call.sentAt,
                timeout_at |-> call.timeoutAt]
    IN [ensureTable(s) EXCEPT !.table =
           IF \E i \in 1..Len(@) : @[i].id = call.id THEN @ ELSE Append(@, row)]

\* save: INSERT OR REPLACE deletes the row that has the id and inserts the
\* new one, with a rowid after every other; the table is kept in rowid order
sqlSave(s, call) ==
    LET row == [id |-> call.id, method |-> call.method,
                params |-> JSONstringify(call.params),
                callback |-> call.callback, sent_at |-> call.sentAt,
                timeout_at |-> call.timeoutAt]
    IN [ensureTable(s) EXCEPT !.table =
           Append(SelectSeq(@, LAMBDA r : r.id # call.id), row)]

rowToCall(row) ==
    [id |-> row.id, method |-> row.method, params |-> JSONparse(row.params),
     callback |-> row.callback, sentAt |-> row.sent_at,
     timeoutAt |-> row.timeout_at]

\* get: SELECT * WHERE id = ?
sqlGet(s, id) ==
    IF \E i \in 1..Len(s.table) : s.table[i].id = id
    THEN rowToCall(s.table[CHOOSE i \in 1..Len(s.table) : s.table[i].id = id])
    ELSE Null

\* delete: DELETE WHERE id = ?
sqlDelete(s, id) ==
    [ensureTable(s) EXCEPT !.table = SelectSeq(@, LAMBDA r : r.id # id)]

\* the orders of 1..n
OrdersOf(n) ==
    {f \in [1..n -> 1..n] : \A i, j \in 1..n : i # j => f[i] # f[j]}

\* what SELECT ... ORDER BY key ASC may return for rows whose keys are
\* keys[i]: SQL leaves the order of rows with equal keys open
OrderBy(rows, keys) ==
    {[i \in 1..Len(rows) |-> rowToCall(rows[f[i]])] :
        f \in {g \in OrdersOf(Len(rows)) :
                 \A i, j \in 1..Len(rows) : i < j => keys[g[i]] <= keys[g[j]]}}

\* listExpired: WHERE timeout_at <= ? ORDER BY timeout_at ASC
sqlListExpired(s, before) ==
    LET rows == SelectSeq(s.table, LAMBDA r : r.timeout_at <= before) IN
    OrderBy(rows, [i \in 1..Len(rows) |-> rows[i].timeout_at])

\* listAll: ORDER BY sent_at ASC
sqlListAll(s) ==
    OrderBy(s.table, [i \in 1..Len(s.table) |-> s.table[i].sent_at])

\* what a step on the two storages leaves alone
pairFrame ==
    /\ UNCHANGED <<durableRequestCounter, now, multi, peerMap, hooks, client,
                   heap, actor>>
    /\ UNCHANGED <<closed, readyState, requestCounter, pendingRequests, calls,
                   tasks, sent, recv>>

\* one operation on a MemoryPendingCallStorage (storage) and on a
\* SqlPendingCallStorage (sql), with what each returns
pairSave(call) ==
    /\ storage' = storageSave(storage, call)
    /\ sql' = sqlSave(sql, call)
    /\ last' = [op |-> "save", call |-> call]
    /\ pairFrame

pairGet(id) ==
    /\ sql' = ensureTable(sql)
    /\ last' = [op |-> "get", id |-> id, memory |-> storageGet(storage, id),
                sql |-> sqlGet(sql, id)]
    /\ pairFrame
    /\ UNCHANGED storage

pairDelete(id) ==
    /\ storage' = storageDelete(storage, id)
    /\ sql' = IF sqlGet(sql, id) # Null THEN sqlDelete(sql, id)
              ELSE ensureTable(sql)
    /\ last' = [op |-> "delete", id |-> id,
                memory |-> storageGet(storage, id) # Null,
                sql |-> sqlGet(sql, id) # Null]
    /\ pairFrame

pairListExpired(before) ==
    /\ sql' = ensureTable(sql)
    /\ \E rows \in sqlListExpired(sql, before) :
          last' = [op |-> "listExpired", before |-> before,
                   memory |-> listExpired(storage, before), sql |-> rows]
    /\ pairFrame
    /\ UNCHANGED storage

pairListAll ==
    /\ sql' = ensureTable(sql)
    /\ \E rows \in sqlListAll(sql) :
          last' = [op |-> "listAll", memory |-> listAll(storage), sql |-> rows]
    /\ pairFrame
    /\ UNCHANGED storage

pairClear ==
    /\ storage' = <<>>
    /\ sql' = [ensureTable(sql) EXCEPT !.table = <<>>]
    /\ last' = [op |-> "clear"]
    /\ pairFrame

\* ------------------------------------------------------------ RpcClient
\* client.ws and client.peer: 0 is null, k is the k-th WebSocket the client
\* made, or the RpcPeer made for it, which the client closes and drops
\* together; client.sockets[k]: the socket's readyState, whether the listeners
\* of the connect() call that made it are on it, whether handleOpen has set
\* its onclose, which connect() call made it and whether that call's promise
\* is settled; client.timers: the timers set and not yet run or cleared;
\* client.reconnectTimeout: the timer this.reconnectTimeout holds, 0 is null;
\* history: afterDisconnect (disconnect() was called and the user has not
\* called connect() since), attempts (connect() calls of attemptReconnect
\* since the last open)

\* reconnect: { maxAttempts: 2 }
maxAttempts == 2

cancelReconnect(c) ==
    IF c.reconnectTimeout # 0
    THEN [c EXCEPT !.timers = @ \ {c.reconnectTimeout}, !.reconnectTimeout = 0]
    ELSE c

scheduleReconnect(c) ==
    IF maxAttempts > 0 /\ c.reconnectAttempt >= maxAttempts
    THEN [c EXCEPT !.state = "disconnected", !.hooks.onReconnectFailed = @ + 1]
    ELSE [c EXCEPT !.state = "reconnecting",
                   !.reconnectAttempt = @ + 1,
                   !.hooks.onReconnect = @ + 1,
                   !.timerSeq = @ + 1,
                   !.timers = @ \cup {c.timerSeq + 1},
                   !.reconnectTimeout = c.timerSeq + 1]

handleOpen(c) ==
    IF c.ws = 0 THEN c
    ELSE [c EXCEPT !.state = "connected",
                   !.reconnectAttempt = 0,
                   !.peer = c.ws,
                   !.sockets[c.ws].onclose = TRUE,
                   !.hooks.onConnect = @ + 1,
                   !.attempts = 0]

clientHandleClose(c) ==
    LET c1 == [c EXCEPT !.peer = 0, !.ws = 0, !.hooks.onDisconnect = @ + 1] IN
    IF c.intentionalClose THEN [c1 EXCEPT !.state = "disconnected"]
    ELSE scheduleReconnect(c1)

\* the catch of attemptReconnect
catchReconnect(c) == IF ~c.intentionalClose THEN scheduleReconnect(c) ELSE c

\* connect(), called by `by`: the user or attemptReconnect; createWebSocket
\* returns a socket or throws
connect(c, by, throws) ==
    IF c.state \in {"connected", "connecting"} THEN c
    ELSE LET c1 == [c EXCEPT !.intentionalClose = FALSE, !.state = "connecting",
                             !.attempts = IF by = "reconnect" THEN @ + 1 ELSE @]
         IN
         IF throws
         THEN LET c2 == [c1 EXCEPT !.state = "disconnected"] IN
              IF by = "reconnect" THEN catchReconnect(c2) ELSE c2
         ELSE [c1 EXCEPT !.sockets = Append(@, [readyState |-> CONNECTING,
                                                listeners |-> TRUE,
                                                onclose |-> FALSE,
                                                by |-> by,
                                                settled |-> FALSE]),
                         !.ws = Len(c.sockets) + 1]

\* cleanup of the connect() call that made socket k: it takes the call's
\* listeners off this.ws
cleanup(c, k) == IF c.ws = k THEN [c EXCEPT !.sockets[k].listeners = FALSE] ELSE c

\* reject of the promise of the connect() call that made socket k
rejectConnect(c, k) ==
    IF c.sockets[k].settled THEN c
    ELSE LET c1 == [c EXCEPT !.sockets[k].settled = TRUE] IN
         IF c.sockets[k].by = "reconnect" THEN catchReconnect(c1) ELSE c1

disconnect(c) ==
    LET c1 == [cancelReconnect([c EXCEPT !.intentionalClose = TRUE])
                 EXCEPT !.peer = 0]
        c2 == IF c1.ws # 0 /\ c1.sockets[c1.ws].readyState # CLOSED
              THEN [c1 EXCEPT !.sockets[c1.ws].readyState = CLOSING]
              ELSE c1
    IN [c2 EXCEPT !.ws = 0, !.state = "disconnected"]

\* what a step of the client leaves alone
clientFrame ==
    /\ UNCHANGED <<durableVars, multi, peerMap, hooks, heap, actor, sql>>
    /\ UNCHANGED <<closed, readyState, requestCounter, pendingRequests, calls,
                   tasks, sent, recv>>

\* the user calls connect()
ClientConnect(throws) ==
    /\ client' = [connect(client, "user", throws) EXCEPT !.afterDisconnect = FALSE]
    /\ last' = [op |-> "connect", rejected |-> "none"]
    /\ clientFrame

\* the user calls disconnect()
ClientDisconnect ==
    /\ client' = [disconnect(client) EXCEPT !.afterDisconnect = TRUE]
    /\ last' = [op |-> "disconnect", rejected |-> "none"]
    /\ clientFrame

\* the callback of a reconnect timer: attemptReconnect
ReconnectTimerFire(t, throws) ==
    LET c == [client EXCEPT !.timers = @ \ {t}, !.reconnectTimeout = 0] IN
    /\ t \in client.timers
    /\ client' = connect(c, "reconnect", throws)
    /\ last' = [op |-> "attemptReconnect",
                rejected |-> IF throws /\ c.state \notin {"connected", "connecting"}
                             THEN "reconnect" ELSE "none"]
    /\ clientFrame

\* socket k opens: onOpen of the connect() call that made it
SocketOpened(k) ==
    LET c == [client EXCEPT !.sockets[k].readyState = OPEN] IN
    /\ k \in 1..Len(client.sockets)
    /\ client.sockets[k].readyState = CONNECTING
    /\ client' = IF c.sockets[k].listeners
                 THEN [handleOpen(cleanup(c, k)) EXCEPT !.sockets[k].settled = TRUE]
                 ELSE c
    /\ last' = [op |-> "socketOpened", rejected |-> "none"]
    /\ clientFrame

\* socket k closes or fails to connect: onError and, if still on the socket,
\* onClose of the connect() call that made it; its onclose if it has opened
SocketClosed(k) ==
    LET c == [client EXCEPT !.sockets[k].readyState = CLOSED]
        c1 == IF c.sockets[k].listeners
              THEN LET e == rejectConnect(
                               [cleanup(c, k) EXCEPT !.state = "disconnected"], k)
                   IN IF e.sockets[k].listeners
                      THEN [e EXCEPT !.state = "disconnected"] ELSE e
              ELSE c
    IN
    /\ k \in 1..Len(client.sockets)
    /\ client.sockets[k].readyState # CLOSED
    /\ client' = IF c1.sockets[k].onclose THEN clientHandleClose(c1) ELSE c1
    /\ last' = [op |-> "socketClosed",
                rejected |-> IF c.sockets[k].listeners /\ ~c.sockets[k].settled
                             THEN c.sockets[k].by ELSE "none"]
    /\ clientFrame

\* ----------------------------------------------------------- the harnesses
\* what the driver of a peer is called with: a method of the remote schema
\* and one that is in no schema
CallMethods == {"getUser", "absent"}

CallInputs == {"raw", "bad"}

CallTimeouts == {None, Some(1)}

\* Spec: peer A as the caller; its remote end may send any reply frame, for
\* ids A has issued and for others, in any order and more than once
ReplyIds == {IdString(n) : n \in 1..MaxCalls} \cup {<<"9">>}

ReplyFrames ==
    {Garbage, InvalidSchema}
    \cup {createResponse(i, "res") : i \in ReplyIds}
    \cup {createError(i, INTERNAL_ERROR, <<"boom">>, "detail") : i \in ReplyIds}

Next ==
    \/ \E method \in CallMethods, input \in CallInputs, timeout \in CallTimeouts :
          callMethod("A", method, input, timeout)
    \/ \E cn \in 1..MaxCalls : TimerFire("A", cn)
    \/ Tick
    \/ close("A")
    \/ TransportClose("A")
    \/ \E data \in ReplyFrames : Inject("A", data)

Spec == Init /\ [][Next]_vars

\* SpecThrow: peer A as the caller on a socket whose send may throw
NextThrow ==
    \/ \E method \in CallMethods, input \in CallInputs, timeout \in CallTimeouts :
          callMethod("A", method, input, timeout)
    \/ \E method \in CallMethods, input \in CallInputs, timeout \in CallTimeouts :
          callMethodSendThrows("A", method, input, timeout)
    \/ \E cn \in 1..MaxCalls : TimerFire("A", cn)
    \/ Tick
    \/ close("A")
    \/ \E data \in ReplyFrames : Inject("A", data)

SpecThrow == Init /\ [][NextThrow]_vars

\* SpecCallee: peer B as the callee; its remote end may send any request
RequestIds == {<<"r", "1">>, <<"r", "2">>}

RequestFrames ==
    {createRequest(i, m, v) :
        i \in RequestIds, m \in {"getUser", "unimpl", "noSuch"}, v \in CallInputs}

NextCallee ==
    \/ \E data \in RequestFrames : Inject("B", data)
    \/ \E tn \in 1..MaxTasks : Resume("B", tn)
    \/ close("B")
    \/ TransportClose("B")

\* timers that are due fire, and time passes
FairSpec ==
    Spec /\ WF_vars(Tick) /\ \A cn \in 1..MaxCalls : WF_vars(TimerFire("A", cn))

SpecCallee == Init /\ [][NextCallee]_vars

\* SpecPair: A and B joined by the transport, each receiving only what the
\* other has sent
PairPeers == {"A", "B"}

NextPair ==
    \/ /\ requestCounter["A"] < MaxPairCalls
       /\ \E method \in RemoteMethods("A") : callMethod("A", method, "raw", None)
    \/ \E cn \in 1..MaxCalls : TimerFire("A", cn)
    \/ Tick
    \/ close("A")
    \/ \E p \in PairPeers : TransportClose(p)
    \/ \E p \in PairPeers : Deliver(p)
    \/ \E tn \in 1..MaxTasks : Resume("B", tn)

SpecPair == Init /\ [][NextPair]_vars

\* SpecDurable: peer A is a DurableRpcPeer over a MemoryPendingCallStorage;
\* its remote end may answer any durable id, answered or not, the process
\* may hibernate, and the promise-based calls of A stay unanswered
DurableCallbacks == {"onRemoteMethodComplete", "notAFunction", "nonExistentMethod"}

DurableFrames ==
    {Garbage}
    \cup {createResponse(DurableId(n), "res") : n \in 1..MaxDurable}
    \cup {createError(DurableId(1), INTERNAL_ERROR, <<"boom">>, "detail")}

NextDurable ==
    \/ \E callback \in DurableCallbacks :
          callWithCallback("A", "getUser", "raw", callback, Some(1))
    \/ \E data \in DurableFrames : DurableInject("A", data)
    \/ cleanupExpired("A")
    \/ clearPendingCalls("A")
    \/ Recreate("A")
    \/ ClockTick
    \/ /\ requestCounter["A"] < MaxPairCalls
       /\ callMethod("A", "getUser", "raw", None)
    \/ close("A")
    \/ TransportClose("A") /\ readyState'["A"] = CLOSED

SpecDurable == Init /\ [][NextDurable]_vars

\* SpecRecovery: a DurableRpcPeer on a storage that outlives it; the peer
\* constructed after hibernation is given the actor of the fixture or an
\* actor that has lost a method
NextRecovery ==
    \/ \E callback \in {"onRemoteMethodComplete", "onRemoteMethodError"} :
          callWithCallback("A", "getUser", "raw", callback, Some(1))
    \/ \E data \in DurableFrames : DurableInject("A", data)
    \/ \E methods \in {ActorMethods, {"onRemoteMethodError"}} :
          RecreateWith("A", methods)
    \/ ClockTick
    \/ cleanupExpired("A")
    \/ TransportClose("A") /\ readyState'["A"] = CLOSED

SpecRecovery == Init /\ [][NextRecovery]_vars

\* SpecMulti: a Multi-Peer over the peers A and C; the driver is called for
\* every form of `ids`, peers are closed, and the remote ends answer or not
MultiIds ==
    {IdsUndefined, IdsString("C"), IdsString("x"), IdsArray(<<"A", "C">>),
     IdsArray(<<"C", "x", "A">>), IdsArray(<<"A", "A">>)}

MultiReplyFrames ==
    {createResponse(IdString(n), "res") : n \in 1..MaxCalls}
    \cup {createError(IdString(1), INTERNAL_ERROR, <<"boom">>, "detail")}

NextMulti ==
    \/ \E input \in CallInputs, ids \in MultiIds, timeout \in CallTimeouts :
          MultiCall("getUser", input, ids, timeout)
    \/ \E p \in {"A", "C"} : \E cn \in 1..MaxCalls : TimerFire(p, cn)
    \/ \E m \in 1..MaxMulti : \E k \in 1..2 * MaxCalls : RaceTimerFire(m, k)
    \/ MultiTick
    \/ \E p \in {"A", "C"} : close(p)
    \/ \E p \in {"A", "C"} : \E data \in MultiReplyFrames : Inject(p, data)

SpecMulti == Init /\ [][NextMulti]_vars

\* SpecActor: an RpcActor with the connections A and C; frames arrive on
\* them before and after the actor hibernates
ActorFrames == {Garbage, createRequest(<<"r", "1">>, "getUser", "raw")}

NextActor ==
    \/ \E ws \in {"A", "C"} : onWebSocketConnect(ws)
    \/ \E ws \in {"A", "C"} : \E message \in ActorFrames :
          onWebSocketMessage(ws, message)
    \/ Hibernate

SpecActor == Init /\ [][NextActor]_vars

\* SpecServer: an RpcServer with connections A and C; the server calls its
\* peers, closes them by id and closes itself, the connections close and
\* fail, replies arrive
NextServer ==
    \/ \E ws \in {"A", "C"} : handleConnection(ws)
    \/ \E p \in {"A", "C"} :
          /\ p \in peerMap
          /\ callMethod(p, "getUser", "raw", None)
    \/ \E p \in {"A", "C"} : Inject(p, createResponse(IdString(1), "res"))
    \/ \E ws \in {"A", "C"} : wsOnClose(ws)
    \/ \E ws \in {"A", "C"} : wsOnError(ws)
    \/ \E ws \in {"A", "C"} : doHandleError(ws)
    \/ \E id \in {"A", "C", "x"} : closePeer(id)
    \/ serverClose

SpecServer == Init /\ [][NextServer]_vars

\* SpecShared: the DurableRpcPeers of connections A and C, made by one
\* DOMultiPeer on one storage; the actor makes durable calls on the peers it
\* has, replies arrive on either connection, and the actor hibernates
NextShared ==
    \/ \E ws \in {"A", "C"} : onWebSocketConnect(ws)
    \/ \E p \in {"A", "C"} :
          /\ p \in peerMap
          /\ callWithCallback(p, "getUser", "raw", "onRemoteMethodComplete",
                              Some(1))
    \/ \E ws \in {"A", "C"} : \E message \in DurableFrames :
          onWebSocketMessage(ws, message)
    \/ Hibernate

SpecShared == Init /\ [][NextShared]_vars

\* SpecStorage: a MemoryPendingCallStorage, with or without paramsCodec, and
\* a caller that saves calls, gets them and writes to the objects it holds
StorageIds == {"call-1", "call-2"}

Times == 0..MaxNow

NextStorage ==
    \/ \E paramsCodec \in BOOLEAN : newStorage(paramsCodec)
    \/ \E id \in StorageIds, sentAt \in Times, timeoutAt \in Times :
          heapSave(id, sentAt, timeoutAt)
    \/ \E id \in StorageIds : heapGet(id)
    \/ \E k \in 1..MaxHeld : mutateField(k)
    \/ \E k \in 1..MaxHeld : mutateParams(k)

SpecStorage == Init /\ [][NextStorage]_vars

\* SpecPairStorage: the same calls, with params that are JSON values, go to
\* a MemoryPendingCallStorage and to a SqlPendingCallStorage
PairParams == {JsNumber(1), JsObject([values |-> JsArray(<<JsNumber(1), JsNull>>)])}

PairCalls ==
    {[id |-> id, method |-> "getUser", params |-> params,
      callback |-> "onRemoteMethodComplete", sentAt |-> sentAt,
      timeoutAt |-> timeoutAt] :
        id \in StorageIds, params \in PairParams, sentAt \in Times,
        timeoutAt \in Times}

NextPairStorage ==
    \/ \E call \in PairCalls : pairSave(call)
    \/ \E id \in StorageIds : pairGet(id)
    \/ \E id \in StorageIds : pairDelete(id)
    \/ \E before \in Times : pairListExpired(before)
    \/ pairListAll
    \/ pairClear

SpecPairStorage == Init /\ [][NextPairStorage]_vars

\* SpecCodec: messages of the four variants, with payloads of JSON and
\* payloads JSON has no form for, go through each of the three protocols
JsonPayloads ==
    {JsString("s"), JsNumber(1), JsBoolean(TRUE), JsNull, JsArray(<<>>),
     JsArray(<<JsNumber(1), JsString("s"), JsNull>>),
     JsObject([ts |-> JsNumber(1)]),
     JsObject([nested |-> JsObject([value |-> JsNumber(1)])]),
     JsObject([values |-> JsArray(<<JsNumber(1), JsNumber(2)>>)])}

OtherPayloads ==
    {JsUndefined, JsNaN, JsDate(5), JsArray(<<JsUndefined>>),
     JsObject([x |-> JsUndefined]), JsObject([at |-> JsDate(5)])}

Payloads == JsonPayloads \cup OtherPayloads

Messages ==
    {JsObject([type |-> JsString("rpc:request"), id |-> JsString("1"),
               method |-> JsString("ping"), params |-> x]) : x \in Payloads}
    \cup {JsObject([type |-> JsString("rpc:response"), id |-> JsString("1"),
                    result |-> x]) : x \in Payloads}
    \cup {JsObject([type |-> JsString("rpc:error"), id |-> JsString("1"),
                    code |-> JsNumber(INTERNAL_ERROR),
                    message |-> JsString("boom"), data |-> x]) : x \in Payloads}
    \cup {JsObject([type |-> JsString("rpc:error"), id |-> JsString("1"),
                    code |-> JsNumber(INTERNAL_ERROR),
                    message |-> JsString("boom")])}
    \cup {JsObject([type |-> JsString("rpc:event"), event |-> JsString("update"),
                    data |-> x]) : x \in Payloads}

Codecs == {"json", "msgpack", "cbor"}

NextCodec == \E codec \in Codecs, m \in Messages : RoundTrip(codec, m)

SpecCodec == Init /\ [][NextCodec]_vars

\* the payload of a message
payloadOf(m) ==
    LET k == CHOOSE k \in {"params", "result", "data"} :
                 k \in DOMAIN m.fields \/ k = "data"
    IN IF k \in DOMAIN m.fields THEN m.fields[k] ELSE JsUndefined

\* SpecClient: an RpcClient with reconnect.maxAttempts 2; the user connects
\* and disconnects at any time, sockets open, fail and close, timers run
NextClient ==
    \/ /\ \E throws \in BOOLEAN : ClientConnect(throws)
       /\ Len(client'.sockets) <= MaxSockets
    \/ ClientDisconnect
    \/ /\ \E t \in 1..(2 * MaxSockets) : \E throws \in BOOLEAN :
             ReconnectTimerFire(t, throws)
       /\ Len(client'.sockets) <= MaxSockets
    \/ \E k \in 1..MaxSockets : SocketOpened(k)
    \/ \E k \in 1..MaxSockets : SocketClosed(k)

SpecClient == Init /\ [][NextClient]_vars

\* SpecDuplex: peer D calls, emits and serves the Requests of its remote end
EmitEvents == {"localEvent", "unknownLocalEvent"}

\* the Request and Event frames in p's outbound log: the frames of the
\* operations p started itself
OwnFrames(log) ==
    {i \in 1..Len(log) : log[i].json.type \in {"rpc:request", "rpc:event"}}

DuplexFrames == {createRequest(<<"r", "1">>, "getUser", "raw")}

NextDuplex ==
    \/ /\ callMethod("D", "getUser", "raw", None)
       /\ Cardinality(OwnFrames(sent'["D"])) <= MaxOwnFrames
    \/ /\ \E event \in EmitEvents, data \in CallInputs : emit("D", event, data)
       /\ Cardinality(OwnFrames(sent'["D"])) <= MaxOwnFrames
    \/ \E data \in DuplexFrames : Inject("D", data)
    \/ \E tn \in 1..MaxTasks : Resume("D", tn)
    \/ close("D")
    \/ TransportClose("D") /\ readyState'["D"] = CLOSED

SpecDuplex == Init /\ [][NextDuplex]_vars

\* SpecOrder: peer D on an open socket; its remote end numbers each Request
\* with the count of the frames D had handed to the socket when the Request
\* was dispatched
NextOrder ==
    \/ /\ callMethod("D", "getUser", "raw", None)
       /\ Cardinality(OwnFrames(sent'["D"])) <= MaxOwnFrames
    \/ /\ emit("D", "localEvent", "raw")
       /\ Cardinality(OwnFrames(sent'["D"])) <= MaxOwnFrames
    \/ Inject("D", createRequest(IdString(Len(sent["D"])), "getUser", "raw"))
    \/ \E tn \in 1..MaxTasks : Resume("D", tn)

SpecOrder == Init /\ [][NextOrder]_vars

\* SpecBroadcast: a Multi-Peer over A and C emits while peers are closed and
\* sockets close
EmitIds ==
    {IdsUndefined, IdsArray(<<>>), IdsArray(<<"C">>),
     IdsArray(<<"C", "x", "A">>), IdsArray(<<"A", "A">>)}

NextBroadcast ==
    \/ /\ \E event \in EmitEvents, data \in CallInputs, ids \in EmitIds :
             MultiEmit(event, data, ids)
       /\ \A p \in Peers : Cardinality(OwnFrames(sent'[p])) <= MaxOwnFrames
    \/ \E p \in {"A", "C"} : close(p)
    \/ \E p \in {"A", "C"} : TransportClose(p)

SpecBroadcast == Init /\ [][NextBroadcast]_vars

\* ------------------------------------------------------------ the claims
\* the pending entry of call cn of p is in the map
InMap(p, cn) ==
    /\ calls[p][cn].id \in DOMAIN pendingRequests[p]
    /\ pendingRequests[p][calls[p][cn].id].call = cn

TerminalEvents ==
    {"resolve", "RpcRemoteError", "RpcTimeoutError", "RpcConnectionClosed"}

\* C1: every registered driver call has at most one terminal event (resolve,
\* RemoteError, TimeoutError or ConnectionClosed), whatever reply frames,
\* timer firings and close() interleave; its entry is in the pending map
\* exactly as long as it has none, and its timer runs exactly as long as the
\* entry is in the map.
C1_OneTerminalEvent ==
    \A p \in Peers : \A cn \in 1..Len(calls[p]) :
        LET c == calls[p][cn] IN
        /\ Len(c.events) <= 1
        /\ \A i \in 1..Len(c.events) : c.events[i].name \in TerminalEvents
        /\ InMap(p, cn) <=> c.events = <<>>
        /\ InMap(p, cn) <=> c.timer = "armed"

\* one call resolved, another timed out, and a reply for the resolved call
\* arrived once more
C1_Witness ==
    /\ Len(calls["A"]) = 2
    /\ \E cn \in 1..2 :
          /\ calls["A"][cn].events = <<resolve("res")>>
          /\ calls["A"][3 - cn].events # <<>>
          /\ calls["A"][3 - cn].events[1].name = "RpcTimeoutError"
          /\ last.op = "handleMessage"
          /\ last.data \in {createResponse(calls["A"][cn].id, "res"),
                            createError(calls["A"][cn].id, INTERNAL_ERROR,
                                        <<"boom">>, "detail")}

\* C2: closed implies that the pending map is empty.
C2_ClosedImpliesEmpty ==
    \A p \in Peers : closed[p] => DOMAIN pendingRequests[p] = {}

\* close() emptied a map that held a call, and a driver call was made after
CallsRejectedWith(p, error) ==
    {cn \in 1..Len(calls[p]) : calls[p][cn].events = <<error>>}

C2_Witness ==
    /\ closed["A"]
    /\ readyState["A"] = OPEN
    /\ CallsRejectedWith("A", RpcConnectionClosed) # {}
    /\ last.op = "callMethod"
    /\ last.method = "getUser"
    /\ last.input = "raw"
    /\ last.thrown = RpcConnectionClosed

\* C3: close() rejects every pending call with ConnectionClosed and nothing
\* else, cancels its timer and leaves the map empty; a call rejected by
\* close() never gets another event afterwards.
C3_CloseRejectsAll ==
    [][\A p \in Peers :
         /\ (last'.op = "close" /\ last'.p = p) =>
               /\ DOMAIN pendingRequests'[p] = {}
               /\ \A id \in DOMAIN pendingRequests[p] :
                     LET cn == pendingRequests[p][id].call IN
                     /\ calls'[p][cn].events = <<RpcConnectionClosed>>
                     /\ calls'[p][cn].timer = "cleared"
         /\ \A cn \in 1..Len(calls[p]) :
               calls[p][cn].events = <<RpcConnectionClosed>>
                  => /\ calls'[p][cn].events = <<RpcConnectionClosed>>
                     /\ calls'[p][cn].timer # "armed"]_vars

\* close() met two pending calls, and both deadlines have passed
C3_Witness ==
    /\ CallsRejectedWith("A", RpcConnectionClosed) = {1, 2}
    /\ \A cn \in {1, 2} : calls["A"][cn].left = 0

\* C4: a registered call gets the timeout `timeout ?? defaultTimeout`; when
\* its timer fires the entry leaves the map and the caller is rejected with
\* the TimeoutError of the call's method and duration; with timers firing
\* when due, every registered call is eventually settled, also when no reply
\* ever arrives and the peer is never closed.
C4_TimeoutSettles ==
    /\ [][\A p \in Peers :
            /\ (last'.op = "callMethod" /\ last'.p = p /\ last'.thrown = NoError)
                  => LET c == calls'[p][Len(calls'[p])] IN
                     /\ c.timeoutMs = Nullish(last'.timeout, defaultTimeout(p))
                     /\ c.left = c.timeoutMs
                     /\ c.timer = "armed"
            /\ (last'.op = "timeout" /\ last'.p = p)
                  => LET cn == last'.call
                         c == calls[p][cn]
                     IN
                     /\ c.left = 0
                     /\ InMap(p, cn)
                     /\ c.id \notin DOMAIN pendingRequests'[p]
                     /\ calls'[p][cn].events =
                           <<RpcTimeoutError(c.method, c.timeoutMs)>>]_vars
    /\ \A cn \in 1..MaxCalls :
          (Len(calls["A"]) >= cn)
             ~> (Len(calls["A"]) >= cn /\ calls["A"][cn].events # <<>>)

\* a call made with timeout 1 was rejected by its timer
C4_Witness ==
    /\ last.op = "timeout"
    /\ calls["A"][last.call].events = <<RpcTimeoutError("getUser", 1)>>
    /\ calls["A"][last.call].id \notin DOMAIN pendingRequests["A"]

\* handleMessage of peer p has just handled a message of one of the types
Handled(l, p, types) ==
    /\ l.op = "handleMessage"
    /\ l.p = p
    /\ LET message == safeDecodeMessage(l.data) IN
       message # Null /\ message.type \in types

\* C5: a Response for a call whose timer has fired changes neither the
\* caller's promise, already rejected with TimeoutError, nor the pending map.
C5_LateResponseDropped ==
    [][\A p \in Peers :
         Handled(last', p, {"rpc:response"}) =>
            \A cn \in 1..Len(calls[p]) :
               (calls[p][cn].id = last'.data.json.id /\ calls[p][cn].timer = "fired")
                  => /\ calls[p][cn].events =
                           <<RpcTimeoutError(calls[p][cn].method,
                                             calls[p][cn].timeoutMs)>>
                     /\ calls'[p] = calls[p]
                     /\ pendingRequests'[p] = pendingRequests[p]
                     /\ sent'[p] = sent[p]]_vars

\* the Response for a timed-out call has just been handled while another
\* call is pending
C5_Witness ==
    /\ Handled(last, "A", {"rpc:response"})
    /\ \E cn \in 1..Len(calls["A"]) :
          /\ calls["A"][cn].id = last.data.json.id
          /\ calls["A"][cn].timer = "fired"
    /\ DOMAIN pendingRequests["A"] # {}

\* C6: a reply frame with a pending id X settles the call registered under X
\* and leaves every other call and every other entry of the map as it was.
C6_CorrelatedById ==
    [][\A p \in Peers :
         (/\ Handled(last', p, {"rpc:response", "rpc:error"})
          /\ last'.data.json.id \in DOMAIN pendingRequests[p])
         => LET x == last'.data.json.id
                cn == pendingRequests[p][x].call
            IN
            /\ calls[p][cn].id = x
            /\ Len(calls'[p][cn].events) = 1
            /\ calls'[p][cn].events[1].name =
                  (IF last'.data.json.type = "rpc:response" THEN "resolve"
                   ELSE "RpcRemoteError")
            /\ DOMAIN pendingRequests'[p] = DOMAIN pendingRequests[p] \ {x}
            /\ \A y \in DOMAIN pendingRequests'[p] :
                  pendingRequests'[p][y] = pendingRequests[p][y]
            /\ Len(calls'[p]) = Len(calls[p])
            /\ \A other \in 1..Len(calls[p]) :
                  other # cn => calls'[p][other] = calls[p][other]]_vars

\* two calls were outstanding and the reply to the second came first
C6_Witness ==
    /\ Handled(last, "A", {"rpc:response", "rpc:error"})
    /\ Len(calls["A"]) = 2
    /\ last.data.json.id = calls["A"][2].id
    /\ last.known
    /\ calls["A"][2].events # <<>>
    /\ calls["A"][1].events = <<>>
    /\ InMap("A", 1)

\* C7: a Response or ErrorMsg whose id is not in the pending map changes
\* nothing of the peer: map, promises and timers, sent frames, closed flag.
C7_UnknownIdNoChange ==
    [][\A p \in Peers :
         (/\ Handled(last', p, {"rpc:response", "rpc:error"})
          /\ last'.data.json.id \notin DOMAIN pendingRequests[p])
         => UNCHANGED <<closed, readyState, requestCounter, pendingRequests,
                        calls, tasks, sent>>]_vars

\* an ErrorMsg for an id the peer never issued arrived while calls are pending
C7_Witness ==
    /\ Handled(last, "A", {"rpc:error"})
    /\ last.data.json.id = <<"9">>
    /\ ~last.known
    /\ Cardinality(DOMAIN pendingRequests["A"]) = 2

\* C8: a driver call made while the peer is closed or its socket is not OPEN
\* throws ConnectionClosed, one naming a method that is not in remoteSchema
\* throws MethodNotFound, one whose input the validator rejects throws
\* ValidationError; none of them sends a frame or changes the pending map.
C8_PreSendFailure ==
    [][\A p \in Peers :
         (last'.op = "callMethod" /\ last'.p = p) =>
            LET method == last'.method
                notOpen == closed[p] \/ readyState[p] # OPEN
                absent == method \notin RemoteMethods(p)
                invalid == last'.input = "bad"
                frame == /\ sent'[p] = sent[p]
                         /\ pendingRequests'[p] = pendingRequests[p]
                         /\ calls'[p] = calls[p]
            IN
            /\ notOpen => (last'.thrown = RpcConnectionClosed /\ frame)
            /\ (~notOpen /\ absent)
                  => (last'.thrown = RpcMethodNotFoundError(method) /\ frame)
            /\ (~notOpen /\ ~absent /\ invalid)
                  => (last'.thrown.name = "RpcValidationError" /\ frame)
            /\ (~notOpen /\ ~absent /\ ~invalid)
                  => last'.thrown = NoError]_vars

\* a call with a known method failed on a socket that is no longer OPEN,
\* on a peer that is not closed and has a pending call
C8_Witness ==
    /\ last.op = "callMethod"
    /\ last.thrown = RpcConnectionClosed
    /\ last.method = "getUser"
    /\ last.input = "raw"
    /\ ~closed["A"]
    /\ DOMAIN pendingRequests["A"] # {}

\* C9: a Request for a method that is not in the callee's localSchema is
\* answered at once with the ErrorMsg of code -32601 and the request's id;
\* the caller's call of that id leaves the map and is rejected with the
\* RemoteError of the call's method and the frame's code, message and data.
NotFoundReply(id, method) ==
    [json |-> [type |-> "rpc:error", id |-> id, code |-> -32601,
               message |-> <<"Method '", method, "' not found">>]]

C9_State ==
    /\ \A tn \in 1..Len(tasks["B"]) :
          LET t == tasks["B"][tn] IN
          t.method \notin LocalMethods("B")
             => /\ t.pc = "done"
                /\ t.replies \in {<<>>, <<NotFoundReply(t.id, t.method)>>}
                /\ t.replies = <<>> => readyState["B"] # OPEN
    /\ \A cn \in 1..Len(calls["A"]) :
          LET c == calls["A"][cn] IN
          (/\ c.method \notin LocalMethods("B")
           /\ c.events # <<>>
           /\ c.events[1].name = "RpcRemoteError")
             => /\ c.events =
                      <<[name |-> "RpcRemoteError", method |-> c.method,
                         code |-> -32601,
                         message |-> <<"Method '", c.method, "' not found">>,
                         data |-> Undefined]>>
                /\ ~InMap("A", cn)

C9_MethodNotFoundEndToEnd ==
    [][/\ C9_State'
       /\ (/\ Handled(last', "B", {"rpc:request"})
           /\ last'.data.json.method \notin LocalMethods("B")
           /\ readyState["B"] = OPEN)
          => sent'["B"] =
                Append(sent["B"], NotFoundReply(last'.data.json.id,
                                                last'.data.json.method))
       /\ (/\ Handled(last', "A", {"rpc:error"})
           /\ last'.data.json.id \in DOMAIN pendingRequests["A"])
          => LET x == last'.data.json.id
                 cn == pendingRequests["A"][x].call
             IN
             /\ x \notin DOMAIN pendingRequests'["A"]
             /\ calls'["A"][cn].timer = "cleared"
             /\ calls'["A"][cn].events =
                   <<[name |-> "RpcRemoteError",
                      method |-> calls["A"][cn].method,
                      code |-> last'.data.json.code,
                      message |-> last'.data.json.message,
                      data |-> Get(last'.data.json, "data")]>>]_vars

\* A's call of "noSuch" was rejected by the ErrorMsg B sent for it
C9_Witness ==
    /\ Handled(last, "A", {"rpc:error"})
    /\ last.known
    /\ last.data = NotFoundReply(<<"1">>, "noSuch")
    /\ last.data \in {tasks["B"][tn].replies[1] :
                         tn \in {n \in 1..Len(tasks["B"]) :
                                    tasks["B"][n].replies # <<>>}}
    /\ calls["A"][1].events # <<>>
    /\ calls["A"][1].events[1].name = "RpcRemoteError"

\* C10: every dispatch of an inbound Request sends at most one reply frame,
\* a Response or an ErrorMsg with the request's id; when the dispatch has
\* run to its end on a socket that is still OPEN it has sent exactly one.
C10_OneReply ==
    \A p \in Peers : \A tn \in 1..Len(tasks[p]) :
        LET t == tasks[p][tn] IN
        /\ Len(t.replies) <= 1
        /\ \A i \in 1..Len(t.replies) :
              /\ t.replies[i].json.type \in {"rpc:response", "rpc:error"}
              /\ t.replies[i].json.id = t.id
              /\ \E k \in 1..Len(sent[p]) : sent[p][k] = t.replies[i]
        /\ (t.pc = "done" /\ readyState[p] = OPEN) => Len(t.replies) = 1
        /\ Len(sent[p]) =
              Cardinality({n \in 1..Len(tasks[p]) : tasks[p][n].replies # <<>>})

\* two requests with the same id were dispatched to the end on an OPEN
\* socket: one got a Response, the other the ErrorMsg of an invalid output
C10_Witness ==
    /\ readyState["B"] = OPEN
    /\ Len(tasks["B"]) = 2
    /\ tasks["B"][1].id = tasks["B"][2].id
    /\ \E tn \in 1..2 :
          /\ tasks["B"][tn].pc = "done"
          /\ tasks["B"][tn].replies = <<createResponse(tasks["B"][tn].id, "ok")>>
          /\ tasks["B"][3 - tn].pc = "done"
          /\ tasks["B"][3 - tn].replies # <<>>
          /\ tasks["B"][3 - tn].replies[1].json.type = "rpc:error"
          /\ tasks["B"][3 - tn].replies[1].json.code = INTERNAL_ERROR
          /\ tasks["B"][3 - tn].result = "bad"

\* the ErrorMsg a failure of the handler of task t is turned into
HandlerFailureReply(t, outcome) ==
    createError(t.id, INTERNAL_ERROR,
                IF outcome.kind = "throwError" THEN outcome.message
                ELSE <<"Unknown error">>,
                Undefined)

\* the step is the return of a handler of p that threw or rejected
HandlerFailed(l, p) ==
    /\ l.op = "resume"
    /\ l.p = p
    /\ l.outcome.kind \in {"throwError", "throwOther"}

\* C11 as stated: every failure of a provider handler is answered with the
\* ErrorMsg of code -32603 and the request's id, carrying the error's
\* message or "Unknown error", and changes nothing else of the peer.
C11_AlwaysAnswered ==
    [][\A p \in Peers :
         HandlerFailed(last', p) =>
            /\ sent'[p] = Append(sent[p],
                                 HandlerFailureReply(tasks[p][last'.task],
                                                     last'.outcome))
            /\ UNCHANGED <<closed, readyState, requestCounter,
                           pendingRequests, calls>>]_vars

\* C11 (amended): a failure of a provider handler changes nothing of the
\* peer; when the socket is OPEN at that moment the one frame sent for it is
\* the ErrorMsg of code -32603 and the request's id, carrying the error's
\* message or "Unknown error"; when the socket is not OPEN no frame is sent.
C11_HandlerFailure ==
    [][\A p \in Peers :
         HandlerFailed(last', p) =>
            /\ sent'[p] = IF readyState[p] = OPEN
                          THEN Append(sent[p],
                                      HandlerFailureReply(tasks[p][last'.task],
                                                          last'.outcome))
                          ELSE sent[p]
            /\ tasks'[p][last'.task].pc = "done"
            /\ UNCHANGED <<closed, readyState, requestCounter,
                           pendingRequests, calls>>]_vars

\* one handler threw an Error and another a value that is no Error, both on
\* an OPEN socket, and each was answered
C11_Witness ==
    /\ HandlerFailed(last, "B")
    /\ last.outcome.kind = "throwOther"
    /\ readyState["B"] = OPEN
    /\ Len(sent["B"]) = 2
    /\ sent["B"][2] = createError(tasks["B"][last.task].id, INTERNAL_ERROR,
                                  <<"Unknown error">>, Undefined)
    /\ sent["B"][1].json.message = <<"Handler error">>
    /\ sent["B"][1].json.code = INTERNAL_ERROR

\* the id is one of callWithCallback
IsDurableId(id) == Len(id) = 2 /\ id[1] = "durable-"

\* the step is a callWithCallback of p that returned
Returned(l, p) ==
    /\ l.op = "callWithCallback"
    /\ l.p = p
    /\ l.thrown = NoError

\* C12: whenever a Request frame with a durable id is handed to the
\* transport, the step is a callWithCallback and storage.get of that id
\* holds, at the moment of the send, the row of the call the frame is of.
C12_PersistBeforeSend ==
    [][\A p \in Peers :
         \A k \in (Len(sent[p]) + 1)..Len(sent'[p]) :
            LET frame == sent'[p][k].json IN
            (frame.type = "rpc:request" /\ IsDurableId(frame.id))
               => /\ Returned(last', p)
                  /\ last'.rowAtSend # Null
                  /\ last'.rowAtSend.id = frame.id
                  /\ last'.rowAtSend.method = frame.method
                  /\ last'.rowAtSend.params = frame.params
                  /\ last'.rowAtSend.callback = last'.callback]_vars

\* a callWithCallback on an OPEN socket has sent its frame
C12_Witness ==
    /\ Returned(last, "A")
    /\ sent["A"] # <<>>
    /\ sent["A"][Len(sent["A"])] =
          createRequest(last.rowAtSend.id, "getUser", "raw")
    /\ IsDurableId(last.rowAtSend.id)

\* the step completes the durable call of the id
Completes(l, id) ==
    \/ /\ l.op = "handleMessage"
       /\ "durable" \in DOMAIN l
       /\ l.durable.id = id
    \/ /\ l.op = "cleanupExpired"
       /\ \E k \in 1..Len(l.returned) : l.returned[k].id = id
    \/ l.op = "clearPendingCalls"

\* C13: a callWithCallback that returns leaves the row of its call in the
\* storage, and the row of a durable call stays what storage.get of its id
\* returns until a step that completes that call (its reply, cleanupExpired
\* returning it, clearPendingCalls): no other step, close() and the
\* construction of a new peer on the storage included, removes or changes it.
C13_RowUntilCompletion ==
    [][/\ \A p \in Peers :
            Returned(last', p) =>
               /\ storageGet(storage', DurableId(durableRequestCounter'[p])) # Null
               /\ storageGet(storage', DurableId(durableRequestCounter'[p])).sentAt
                     = now
       /\ \A i \in 1..Len(storage) :
            \/ storageGet(storage', storage[i].id) = storage[i]
            \/ Completes(last', storage[i].id)]_vars

\* the step is the durable completion of a reply by p
DurableCompletion(l, p) ==
    /\ l.op = "handleMessage"
    /\ l.p = p
    /\ "durable" \in DOMAIN l

\* C14: a Response or ErrorMsg whose id has a row in the storage deletes
\* that row and calls the actor's method named by the row's callback once,
\* with the result (an Error of the frame's message for an ErrorMsg) and a
\* context holding the row; the in-memory pending map, the promises and the
\* sent frames are untouched.
C14_DurableCompletion ==
    [][\A p \in Peers :
         (/\ last'.op = "handleMessage"
          /\ last'.p = p
          /\ safeDecodeMessage(last'.data) # Null
          /\ safeDecodeMessage(last'.data).type \in {"rpc:response", "rpc:error"}
          /\ storageGet(storage, safeDecodeMessage(last'.data).id) # Null)
            => LET message == safeDecodeMessage(last'.data)
                   row == storageGet(storage, message.id)
               IN
               /\ storageGet(storage', message.id) = Null
               /\ Len(storage') = Len(storage) - 1
               /\ Len(last'.invoked) = 1
               /\ last'.invoked[1].callback = row.callback
               /\ last'.invoked[1].payload =
                     IF message.type = "rpc:response" THEN message.result
                     ELSE [name |-> "Error", message |-> message.message]
               /\ last'.invoked[1].context.call = row
               /\ UNCHANGED <<pendingRequests, calls, sent, closed>>]_vars

\* an ErrorMsg completed a durable call while a promise-based call was
\* pending
C14_Witness ==
    /\ DurableCompletion(last, "A")
    /\ last.data.json.type = "rpc:error"
    /\ last.invoked # <<>>
    /\ last.invoked[1].payload = [name |-> "Error", message |-> <<"boom">>]
    /\ DOMAIN pendingRequests["A"] # {}

\* C15: the construction of a new peer leaves the storage as it is, and a
\* Response for a row saved by a peer that is gone (the new peer has made no
\* durable call of its own) calls the row's callback with the result and
\* deletes the row.
C15_HibernationRecovery ==
    [][\A p \in Peers :
         /\ (last'.op = "recreate" /\ last'.p = p) => storage' = storage
         /\ (/\ DurableCompletion(last', p)
             /\ durableRequestCounter[p] = 0
             /\ last'.data.json.type = "rpc:response")
               => /\ last'.invoked =
                        <<[callback |-> last'.durable.callback,
                           payload |-> last'.data.json.result,
                           context |-> [call |-> last'.durable,
                                        latencyMs |-> now - last'.durable.sentAt]]>>
                  /\ storageGet(storage, last'.durable.id) = last'.durable
                  /\ storageGet(storage', last'.durable.id) = Null]_vars

\* the Response for durable-1 reached a peer that has made no durable call
C15_Witness ==
    /\ DurableCompletion(last, "A")
    /\ durableRequestCounter["A"] = 0
    /\ last.durable.id = DurableId(1)
    /\ last.data = createResponse(DurableId(1), "res")
    /\ last.invoked # <<>>
    /\ last.invoked[1].callback = "onRemoteMethodComplete"
    /\ last.invoked[1].payload = "res"

\* C16: close() sets the closed flag, rejects the promise-based pendings and
\* leaves every row of the storage as it is.
C16_CloseKeepsStorage ==
    [][\A p \in Peers :
         (last'.op = "close" /\ last'.p = p)
            => /\ storage' = storage
               /\ closed'[p]
               /\ DOMAIN pendingRequests'[p] = {}
               /\ \A id \in DOMAIN pendingRequests[p] :
                     calls'[p][pendingRequests[p][id].call].events =
                        <<RpcConnectionClosed>>]_vars

\* close() met a promise-based pending call and a durable row
C16_Witness ==
    /\ last.op = "close"
    /\ last.pending = 1
    /\ storage # <<>>

\* C17: callWithCallback throws exactly when the callback is no method of
\* the actor, and then the storage, the sent frames and the counter of the
\* durable ids are what they were.
C17_CallbackNotCallable ==
    [][\A p \in Peers :
         (last'.op = "callWithCallback" /\ last'.p = p)
            => /\ (last'.thrown # NoError)
                     <=> (typeofActor(last'.callback) # "function")
               /\ (last'.thrown # NoError)
                     => /\ last'.thrown =
                              [name |-> "Error",
                               message |-> <<"Callback '", last'.callback,
                                   "' is not a function on the actor">>]
                        /\ UNCHANGED <<storage, sent, durableRequestCounter,
                                       pendingRequests, calls>>]_vars

\* a property of the actor that is no method was named while a row was stored
C17_Witness ==
    /\ last.op = "callWithCallback"
    /\ last.callback = "notAFunction"
    /\ last.thrown # NoError
    /\ storage # <<>>
    /\ readyState["A"] = OPEN

\* C18: cleanupExpired returns the rows with timeoutAt <= now, each once and
\* in ascending timeoutAt, removes exactly those, leaves the others in their
\* order, and calls no method of the actor.
C18_CleanupExpired ==
    [][\A p \in Peers :
         (last'.op = "cleanupExpired" /\ last'.p = p)
            => LET returned == last'.returned IN
               /\ {returned[k] : k \in 1..Len(returned)} =
                     {storage[i] : i \in {j \in 1..Len(storage) :
                                             storage[j].timeoutAt <= now}}
               /\ Len(returned) =
                     Cardinality({j \in 1..Len(storage) :
                                     storage[j].timeoutAt <= now})
               /\ \A k \in 1..(Len(returned) - 1) :
                     returned[k].timeoutAt <= returned[k + 1].timeoutAt
               /\ storage' = SelectSeq(storage, LAMBDA c : c.timeoutAt > now)
               /\ last'.invoked = <<>>]_vars

\* of two rows, cleanupExpired returned the one whose timeoutAt is now and
\* left the other
C18_Witness ==
    /\ last.op = "cleanupExpired"
    /\ Len(last.returned) = 1
    /\ last.returned[1].timeoutAt = now
    /\ Len(storage) = 1
    /\ storage[1].timeoutAt > now

\* the ids of an explicit `ids` option, as the set S
IdSet(ids) ==
    IF ids.kind = "string" THEN {ids.id}
    ELSE {ids.ids[i] : i \in 1..Len(ids.ids)}

\* C19: a Multi-Peer driver call with explicit ids = S yields exactly one
\* entry for each peer whose id is in S and that is open at call time, none
\* for a closed or unknown id, so as many entries as there are such peers
C19_FanOut ==
    [][(last'.op = "multiCall" /\ last'.ids.kind # "undefined") =>
         LET open == {id \in IdSet(last'.ids) :
                        getPeer(id) # Undefined /\ isOpen(id)}
             es == multi'[last'.m].entries
         IN
         /\ Len(es) = Cardinality(open)
         /\ \A id \in open :
               Cardinality({k \in 1..Len(es) : es[k].peer = id}) = 1
         /\ \A k \in 1..Len(es) : es[k].peer \in open]_vars

\* C20: each entry of a Multi-Peer driver call is decided once, by the race
\* of its peer's call against its timer: the timer firing first gives a
\* failure whose error is a timeout error of the library (RpcTimeoutError),
\* the call resolving first gives success with the value, any other failure
\* gives the call's error; and only the entry's own timer or a step of the
\* entry's own peer changes an entry
C20_RaceDecides ==
    [][\A m \in 1..Len(multi') : \A k \in 1..Len(multi'[m].entries) :
         LET e == multi'[m].entries[k]
             before == IF m \in 1..Len(multi) THEN entryResult(m, k) ELSE Pending
             after == entryResult(m, k)'
             own == last'.op = "raceTimeout" /\ last'.m = m /\ last'.k = k
             events == IF e.call = 0 THEN <<>>
                       ELSE calls'[e.peer][e.call].events
         IN
         /\ before # Pending => after = before
         /\ (before = Pending /\ after # Pending) =>
               IF own
               THEN /\ after.success = "false"
                    /\ after.error.name = "RpcTimeoutError"
               ELSE IF e.thrown # NoError
               THEN after = Failure(e.thrown)
               ELSE /\ events # <<>>
                    /\ after = IF events[1].name = "resolve"
                               THEN Success(events[1].value)
                               ELSE Failure(events[1])
         /\ after # before =>
               \/ own
               \/ last'.op = "multiCall"
               \/ "p" \in DOMAIN last' /\ last'.p = e.peer]_vars

\* C23: the ids one peer gives to its calls are pairwise distinct: a call
\* that is registered gets an id no earlier call of the peer had, the id is
\* not in the pending map, and the entries already in the map stay as they are
C23_DistinctIds ==
    [][\A p \in Peers :
         Len(calls'[p]) > Len(calls[p]) =>
            LET id == calls'[p][Len(calls'[p])].id IN
            /\ \A cn \in 1..Len(calls[p]) : calls[p][cn].id # id
            /\ id \notin DOMAIN pendingRequests[p]
            /\ \A i \in DOMAIN pendingRequests[p] :
                  /\ i \in DOMAIN pendingRequests'[p]
                  /\ pendingRequests'[p][i] = pendingRequests[p][i]]_vars

\* a second call was registered after the first one was settled and removed
C23_Witness ==
    /\ last.op = "callMethod"
    /\ last.thrown = NoError
    /\ Len(calls["A"]) = 2
    /\ calls["A"][1].events # <<>>
    /\ DOMAIN pendingRequests["A"] = {calls["A"][2].id}

\* C25: handleMessage on a frame that does not decode, or decodes to a value
\* the message validator rejects, has no effect: nothing is sent, the
\* pending map, the promises and their timers stay as they are, no handler
\* is started, and neither the peer nor the socket is closed
C25_UndecodableDropped ==
    [][\A p \in Peers :
         (/\ last'.op = "handleMessage"
          /\ last'.p = p
          /\ safeDecodeMessage(last'.data) = Null)
         => UNCHANGED <<sent, pendingRequests, calls, tasks, closed, readyState,
                        requestCounter>>]_vars

\* a frame that parses and fails the validator was handed to a peer that is
\* open and has a call pending
C25_Witness ==
    /\ last.op = "handleMessage"
    /\ last.data = InvalidSchema
    /\ DOMAIN pendingRequests["A"] # {}
    /\ ~closed["A"]
    /\ readyState["A"] = OPEN

Handed(p) == SubSeq(sent'[p], Len(sent[p]) + 1, Len(sent'[p]))

\* the number a Request of SpecOrder carries as its id: the count of frames
\* the peer had handed over when the Request was dispatched
StartOf(task) == CHOOSE n \in 0..(MaxTasks + MaxOwnFrames) : IdString(n) = task.id

C22_LazyRecreation ==
    [][\A ws \in Peers :
         (last'.op = "handleMessage" /\ last'.p = ws)
         => /\ ws \in peerMap'
            /\ \A h \in Peers \ {ws} : hooks'[h] = hooks[h]
            /\ IF ws \in peerMap
               THEN /\ peerMap' = peerMap
                    /\ hooks'[ws] = hooks[ws]
               ELSE /\ peerMap' = peerMap \cup {ws}
                    /\ hooks'[ws].onPeerRecreated = hooks[ws].onPeerRecreated + 1
                    /\ hooks'[ws].onConnect = hooks[ws].onConnect + 1
                    /\ hooks'[ws].onDisconnect = hooks[ws].onDisconnect
                    /\ requestCounter[ws] = 0 /\ calls[ws] = <<>>
                    /\ tasks[ws] = <<>> /\ ~closed[ws]]_vars

\* after a hibernation a Request on connection A made a peer for it, which
\* took the Request; onPeerRecreated has fired once
C22_Witness ==
    /\ last.op = "handleMessage"
    /\ last.p = "A"
    /\ "A" \in peerMap
    /\ hooks["A"] = [onConnect |-> 2, onPeerRecreated |-> 1, onDisconnect |-> 0]
    /\ Len(tasks["A"]) = 1

\* C27: a write to an object the caller holds, one it passed to save or one
\* get returned, to a field of the call or to its params, changes nothing
\* of what get(id), listAll() and listExpired(before) return
C27_NoAlias ==
    [][last'.op \in {"mutateField", "mutateParams"}
       => /\ \A id \in StorageIds : getResult(heap', id) = getResult(heap, id)
          /\ listAllResult(heap') = listAllResult(heap)
          /\ \A before \in Times :
                listExpiredResult(heap', before) = listExpiredResult(heap, before)]_vars

C29_NoReconnectAfterDisconnect ==
    [][client'.afterDisconnect
       => /\ client'.state = "disconnected"
          /\ client'.timers = {}
          /\ client.afterDisconnect
             => /\ client'.hooks.onReconnect = client.hooks.onReconnect
                /\ Len(client'.sockets) = Len(client.sockets)]_vars

\* C30: attemptReconnect calls connect() at most maxAttempts times between
\* two opens; when the connect() of an attempt fails with reconnectAttempt
\* at maxAttempts, and the user has not disconnected, onReconnectFailed is
\* called once, the state is "disconnected" and no reconnect timer is
\* pending; an open that connects the client sets reconnectAttempt to 0
C30_BoundedReconnect ==
    [][/\ client'.attempts <= maxAttempts
       /\ (/\ last'.rejected = "reconnect"
           /\ client.reconnectAttempt = maxAttempts
           /\ ~client.intentionalClose
           /\ client' # client)
          => /\ client'.hooks.onReconnectFailed = client.hooks.onReconnectFailed + 1
             /\ client'.state = "disconnected"
             /\ client'.timers = {}
       /\ (last'.op = "socketOpened" /\ client'.state = "connected"
           /\ client.state # "connected")
          => client'.reconnectAttempt = 0]_vars

\* the Request of the call with id x is in the log of p's socket
RequestSent(log, x) ==
    \E i \in 1..Len(log) :
       log[i].json.type = "rpc:request" /\ log[i].json.id = x

\* C32: after every step, a call whose Request has been handed to the
\* socket and whose promise is unsettled is in the pending map under its
\* id; so a Response for the id of such a call is never dropped as unknown,
\* it settles the call
C32_RegisteredBeforeSend ==
    [][\A p \in Peers :
         /\ \A cn \in 1..Len(calls'[p]) :
               (/\ RequestSent(sent'[p], calls'[p][cn].id)
                /\ calls'[p][cn].events = <<>>)
               => /\ calls'[p][cn].id \in DOMAIN pendingRequests'[p]
                  /\ pendingRequests'[p][calls'[p][cn].id].call = cn
         /\ \A cn \in 1..Len(calls[p]) :
               (/\ Handled(last', p, {"rpc:response"})
                /\ last'.data.json.id = calls[p][cn].id
                /\ RequestSent(sent[p], calls[p][cn].id)
                /\ calls[p][cn].events = <<>>)
               => /\ last'.known
                  /\ calls'[p][cn].events # <<>>]_vars

\* the Response to the only call arrived in the step after the call and
\* resolved it
C32_Witness ==
    /\ Handled(last, "A", {"rpc:response"})
    /\ last.known
    /\ Len(calls["A"]) = 1
    /\ Len(sent["A"]) = 1
    /\ Len(calls["A"][1].events) = 1
    /\ calls["A"][1].events[1].name = "resolve"
    /\ calls["A"][1].timer = "cleared"
    /\ calls["A"][1].left = calls["A"][1].timeoutMs

\* C36: when send throws during a driver call the caller is rejected and no
\* pending entry or timer of that call remains, and at every moment the
\* pending map holds exactly the calls whose promise is unsettled
pendingCount(p) == Cardinality(DOMAIN pendingRequests[p])

Unsettled(p) == {cn \in 1..Len(calls[p]) : calls[p][cn].events = <<>>}

C36_NoLeakOnThrow ==
    \A p \in Peers :
       /\ pendingCount(p) = Cardinality(Unsettled(p))
       /\ (/\ last.op = "callMethod"
           /\ last.p = p
           /\ last.thrown = SendError)
          => LET cn == Len(calls[p]) IN
             /\ calls[p][cn].events = <<SendError>>
             /\ calls[p][cn].id \notin DOMAIN pendingRequests[p]
             /\ calls[p][cn].timer # "armed"

\* C39: a close event of a WebSocket the client had opened and has
\* replaced, delivered while the client is connected on another socket, leaves the connection
\* alone: the peer and the socket stay, the state stays "connected", no
\* reconnect is scheduled and no hook of the connection is called
C39_StaleCloseIgnored ==
    [][\A k \in 1..Len(client.sockets) :
          (/\ last'.op = "socketClosed"
           /\ client.sockets[k].readyState # CLOSED
           /\ client'.sockets[k].readyState = CLOSED
           /\ client.sockets[k].onclose
           /\ client.state = "connected"
           /\ client.ws # k)
          => /\ client'.peer = client.peer
             /\ client'.ws = client.ws
             /\ client'.state = "connected"
             /\ client'.timers = client.timers
             /\ client'.reconnectAttempt = client.reconnectAttempt
             /\ client'.hooks = client.hooks]_vars

\* C38: once close() has returned the peer hands no further frame to its
\* socket: no Response or ErrorMsg for a Request that arrives after close or
\* whose handler was running at close, no Request and no Event
C38_SilentAfterClose ==
    [][\A p \in Peers : closed[p] => sent'[p] = sent[p]]_vars

\* C35: a durable row is consumed only together with its continuation: a
\* step of handleMessage removes a row exactly when it calls the actor's
\* method named by that row, once and with that row in the context; a
\* completion frame whose id has no row (a duplicate) calls nothing
RowsGone == {storage[i] : i \in 1..Len(storage)}
               \ {storage'[i] : i \in 1..Len(storage')}

C35_RowWithContinuation ==
    [][\A p \in Peers :
         (last'.op = "handleMessage" /\ last'.p = p)
            => LET invoked == IF "invoked" \in DOMAIN last'
                              THEN last'.invoked ELSE <<>>
               IN
               /\ Len(invoked) = Cardinality(RowsGone)
               /\ Len(invoked) <= 1
               /\ \A row \in RowsGone :
                     /\ invoked[1].callback = row.callback
                     /\ invoked[1].context.call = row]_vars

\* C33: every callWithCallback saves its call under an id that has no row in
\* the storage, so that no durable call overwrites a row that is pending:
\* also after hibernation and with several peers on one storage
C33_FreshDurableId ==
    [][(last'.op = "callWithCallback" /\ last'.thrown = NoError)
          => storageGet(storage, last'.rowAtSend.id) = Null]_vars

\* C34: a Response or ErrorMsg completes a durable call only on the
\* connection on which the Request of that call was sent
C34_OwnConnectionOnly ==
    [][\A p \in Peers :
          DurableCompletion(last', p)
             => RequestSent(sent[p], last'.durable.id)]_vars

\* C37: when a driver call of the Multi-Peer has returned (every entry of
\* its result is decided), no target peer holds a pending request or an
\* armed timer that the call created
AllDecided(m) == \A k \in 1..Len(multi[m].entries) : entryResult(m, k) # Pending

C37_NothingLeftBehind ==
    \A m \in 1..Len(multi) :
       AllDecided(m) =>
          \A k \in 1..Len(multi[m].entries) :
             LET e == multi[m].entries[k] IN
             e.call # 0 =>
                /\ calls[e.peer][e.call].id \notin DOMAIN pendingRequests[e.peer]
                /\ calls[e.peer][e.call].timer # "armed"

\* C31: for a peer that was added to the Multi-Peer, onDisconnect fires
\* exactly when the peer leaves the map, once, and never again, whatever
\* closePeer, close events, error events and the server's close() do in
\* whatever order; the peer is closed and its pending calls are rejected
\* when it fires
C31_DisconnectOnce ==
    [][\A ws \in Peers :
         /\ hooks'[ws].onDisconnect <= hooks'[ws].onConnect
         /\ (ws \in peerMap /\ ws \notin peerMap')
               <=> hooks'[ws].onDisconnect = hooks[ws].onDisconnect + 1
         /\ hooks'[ws].onDisconnect \in
               {hooks[ws].onDisconnect, hooks[ws].onDisconnect + 1}
         /\ hooks'[ws].onDisconnect # hooks[ws].onDisconnect
               => /\ closed'[ws]
                  /\ ~isOpen(ws)'
                  /\ pendingRequests'[ws] = EmptyMap
                  /\ \A cn \in 1..Len(calls'[ws]) :
                        /\ calls'[ws][cn].events # <<>>
                        /\ calls'[ws][cn].timer # "armed"]_vars

\* the server closed while a call to A was pending, and the close event of
\* A's connection came afterwards
C31_Witness ==
    /\ last.op = "wsOnClose"
    /\ last.p = "A"
    /\ hooks["A"].onDisconnect = 1
    /\ peerMap = {}
    /\ Len(calls["A"]) = 1
    /\ calls["A"][1].events = <<RpcConnectionClosed>>
    /\ hooks["C"].onDisconnect = 1
    /\ readyState["C"] = CLOSING

\* C40: MemoryPendingCallStorage and SqlPendingCallStorage return the same
\* for every sequence of save, get, delete, listExpired, listAll and clear
\* over calls with JSON params, and neither holds two rows of one id
OneRowPerId(ids) ==
    \A i, j \in 1..Len(ids) : i # j => ids[i] # ids[j]

C40_SameResults ==
    /\ "memory" \in DOMAIN last => last.memory = last.sql
    /\ OneRowPerId([i \in 1..Len(storage) |-> storage[i].id])
    /\ OneRowPerId([i \in 1..Len(sql.table) |-> sql.table[i].id])

\* C40, amended: get and delete return the same; listExpired and listAll
\* return the same rows, each ascending by its key, and in the same order
\* but for rows whose keys are equal; neither storage holds two rows of one id
Rows(cs) == {cs[i] : i \in 1..Len(cs)}

Ascending(keys) == \A i, j \in 1..Len(keys) : i < j => keys[i] <= keys[j]

C40_SameUpToTies ==
    /\ last.op \in {"get", "delete"} => last.memory = last.sql
    /\ last.op \in {"listExpired", "listAll"} =>
          /\ Len(last.memory) = Len(last.sql)
          /\ Rows(last.memory) = Rows(last.sql)
          /\ \A i \in 1..Len(last.sql) :
                LET key(c) == IF last.op = "listAll" THEN c.sentAt
                              ELSE c.timeoutAt
                IN key(last.memory[i]) = key(last.sql[i])
          /\ Ascending([i \in 1..Len(last.sql) |->
                          IF last.op = "listAll" THEN last.sql[i].sentAt
                          ELSE last.sql[i].timeoutAt])
          /\ last.op = "listExpired" =>
                Rows(last.sql) =
                   {c \in Rows(storage) : c.timeoutAt <= last.before}
          /\ last.op = "listAll" => Rows(last.sql) = Rows(storage)
    /\ OneRowPerId([i \in 1..Len(storage) |-> storage[i].id])
    /\ OneRowPerId([i \in 1..Len(sql.table) |-> sql.table[i].id])
    /\ Rows(storage) = {rowToCall(sql.table[i]) : i \in 1..Len(sql.table)}

\* a call was saved again, and listAll returns two rows with params that
\* went through JSON, the row sent first before the other
C40_Witness ==
    /\ last.op = "listAll"
    /\ Len(last.sql) = 2
    /\ last.sql[1].sentAt < last.sql[2].sentAt
    /\ last.sql = last.memory
    /\ last.sql[1].params.t = "object"
    /\ storage[1].id # sql.table[1].id

====
